---------------------------- MODULE Spec2Model ----------------------------
(***************************************************************************)
(* A model of the Lox bytecode virtual machine, its hash table, its        *)
(* string pool and its mark-sweep collector (src/src/lib/vm.c, table.c,    *)
(* object.c, memory.c) and of the part of the single-pass compiler that    *)
(* decides which variables a closure captures (src/src/lib/compiler.c).    *)
(*                                                                         *)
(* The heap is a function from addresses to objects.  A Value is a record  *)
(* [type, as]; object references are addresses.  Undefined behaviour of    *)
(* the C code (out-of-bounds access, use of a freed or uninitialised       *)
(* object, a cast to the wrong object type) sets the flag ub and stops     *)
(* the machine; uninitialised memory that the code reads is drawn from a   *)
(* set of possible contents.                                               *)
(***************************************************************************)
EXTENDS Integers, Sequences, FiniteSets, TLC

VARIABLES
    heap,           \* address -> object (or FreeCell): the malloc'd memory
    objects,        \* vm->objects, the intrusive list, head first
    stack,          \* vm->stack[0 .. stackTop-1]
    frames,         \* vm->frames[0 .. frameCount-1]
    openUpvalues,   \* vm->openUpvalues, head first
    globals,        \* vm->globals
    strings,        \* vm->strings, the intern pool
    running,        \* TRUE while run() is in its dispatch loop
    result,         \* what the last interpret() returned
    errors,         \* messages runtimeError() wrote during the current interpret()
    output,         \* what OP_PRINT wrote during the current interpret()
    ub,             \* the C code has executed undefined behaviour
    buffers,        \* how many character arrays are allocated and not freed
    collected,      \* the last operation ran the collector
    lost,           \* a collection inside an operation has freed an operand
                    \* of the operation or an object it had allocated
    program,        \* the compiled source handed to interpret()
    runs,           \* how many calls of the library were made on this VM
    lastOp,         \* the instruction (or library function) executed last
    parser,         \* the Parser, Compiler and chunk of the compile() that
                    \* is under way or has returned
    collector       \* vm->bytesAllocated, vm->nextGC and the grey stack as
                    \* initVM sets them, and followed from there over the
                    \* allocations of SpecHeap; in the other specifications
                    \* the outcome of reallocate's test is the free choice gc

vars == <<heap, objects, stack, frames, openUpvalues, globals, strings,
          running, result, errors, output, ub, buffers, collected, lost,
          program, runs, lastOp, parser, collector>>

\* The variables of the VM and of the program it runs
vmVars == <<heap, objects, stack, frames, openUpvalues, globals, strings,
            running, result, errors, output, ub, buffers, collected, lost,
            program, collector>>

-----------------------------------------------------------------------------
(* Bounds of the model *)

MaxObjects == 20

MaxRuns == 2

-----------------------------------------------------------------------------
(* Values: src/include/value.h *)

NIL_VAL == [type |-> "VAL_NIL", as |-> 0]

BOOL_VAL(b) == [type |-> "VAL_BOOL", as |-> IF b THEN 1 ELSE 0]

NUMBER_VAL(n) == [type |-> "VAL_NUMBER", as |-> n]

OBJ_VAL(o) == [type |-> "VAL_OBJ", as |-> o]

IS_NIL(value) == value.type = "VAL_NIL"

IS_BOOL(value) == value.type = "VAL_BOOL"

IS_NUMBER(value) == value.type = "VAL_NUMBER"

IS_OBJ(value) == value.type = "VAL_OBJ"

AS_BOOL(value) == value.as = 1

AS_OBJ(value) == value.as

NULL == 0

Addresses == 1 .. MaxObjects

FreeCell == [type |-> "FREE"]

\* isObjType: the type tag of the object a value refers to.
isObjType(h, value, type) == IS_OBJ(value) /\ h[AS_OBJ(value)].type = type

IS_STRING(h, value) == isObjType(h, value, "OBJ_STRING")

IS_INSTANCE(h, value) == isObjType(h, value, "OBJ_INSTANCE")

isFalsey(value) == IS_NIL(value) \/ (IS_BOOL(value) /\ ~AS_BOOL(value))

\* The element of a singleton set.  The({e(x) : x \in {d}}) is e with x
\* standing for the value of d, which is computed once.
The(S) == CHOOSE x \in S : TRUE

-----------------------------------------------------------------------------
(* 32-bit unsigned arithmetic on pairs of 16-bit halves *)

RECURSIVE XorBits(_, _, _)
XorBits(a, b, n) ==
    IF n = 0 THEN 0
    ELSE (((a % 2) + (b % 2)) % 2) + (2 * XorBits(a \div 2, b \div 2, n - 1))

\* hash ^= (uint8_t)byte
HashXor(h, byte) ==
    [hi |-> h.hi, lo |-> (h.lo - (h.lo % 256)) + XorBits(h.lo % 256, byte, 8)]

\* hash *= 16777619 (0x01000193 = 2^24 + 403), modulo 2^32
HashMul(h) ==
    LET low == h.lo * 403
    IN  [hi |-> ((h.hi * 403) + (low \div 65536) + ((h.lo % 256) * 256)) % 65536,
         lo |-> low % 65536]

\* 2166136261 = 0x811C9DC5
HashBasis == [hi |-> 33052, lo |-> 40389]

RECURSIVE HashLoop(_, _, _)
HashLoop(hash, key, n) ==
    IF n = 0 THEN hash
    ELSE HashLoop(HashMul(HashXor(hash, key[1])), key, n - 1)

\* hashString: the loop reads key[0] in every iteration
hashString(key, length) == HashLoop(HashBasis, key, length)

\* hash % capacity
HashMod(h, capacity) ==
    (((h.hi % capacity) * (65536 % capacity)) + h.lo) % capacity

-----------------------------------------------------------------------------
(* Hash table: src/src/lib/table.c.  A table is [count, capacity, entries]; *)
(* entries[i + 1] is the C entries[i]; key = NULL is an empty slot          *)
(* (value nil) or a tombstone (value true).                                 *)

EmptyEntry == [key |-> NULL, value |-> NIL_VAL]

initTable == [count |-> 0, capacity |-> 0, entries |-> <<>>]

\* What an ObjClass holds in the memory of its methods table when the
\* allocation returned memory that is not zero: anything.
GarbageTable == [count |-> -1, capacity |-> -1, entries |-> <<>>]

GROW_CAPACITY(capacity) == IF capacity < 8 THEN 8 ELSE capacity * 2

\* A probe that takes a tombstone for the end of the probe sequence
ProbeToTombstone(h, entries, capacity, key, index, tombstone) ==
    (index
       + The({n \in 0 .. capacity - 1 :
                /\ entries[((index + n) % capacity) + 1].key \in {NULL, key}
                /\ \A t \in 0 .. n - 1 :
                     entries[((index + t) % capacity) + 1].key
                        \notin {NULL, key}}))
      % capacity

RECURSIVE Probe(_, _, _, _, _, _)
Probe(h, entries, capacity, key, index, tombstone) ==
    LET entry == entries[index + 1]
    IN  IF entry.key = NULL
        THEN IF IS_NIL(entry.value)
             THEN (IF tombstone # -1 THEN tombstone ELSE index)
             ELSE Probe(h, entries, capacity, key, (index + 1) % capacity,
                        IF tombstone = -1 THEN index ELSE tombstone)
        ELSE IF entry.key = key
             THEN index
             ELSE Probe(h, entries, capacity, key, (index + 1) % capacity,
                        tombstone)

\* findEntry: the index of the entry for key, or of the slot to insert it in
findEntry(h, entries, capacity, key) ==
    Probe(h, entries, capacity, key, HashMod(h[key].hash, capacity), -1)

RECURSIVE Rehash(_, _, _, _, _)
Rehash(h, old, entries, capacity, i) ==
    IF i > Len(old) THEN entries
    ELSE IF old[i].key = NULL
         THEN Rehash(h, old, entries, capacity, i + 1)
         ELSE Rehash(h, old,
                     [entries EXCEPT
                        ![findEntry(h, entries, capacity, old[i].key) + 1] =
                            old[i]],
                     capacity, i + 1)

LiveKeys(table) ==
    {table.entries[i].key : i \in 1 .. Len(table.entries)} \ {NULL}

\* adjustCapacity, after its allocation
adjustCapacity(h, table, capacity) ==
    [count    |-> Cardinality(LiveKeys(table)),
     capacity |-> capacity,
     entries  |-> Rehash(h, table.entries,
                         [i \in 1 .. capacity |-> EmptyEntry], capacity, 1)]

\* A table that grows when it is full only
MustGrowWhenFull(table) == table.count + 1 > table.capacity

\* table->count + 1 > table->capacity * TABLE_MAX_LOAD (0.75)
MustGrow(table) == 4 * (table.count + 1) > 3 * table.capacity

\* tableSet, after the allocation of adjustCapacity:
\* [table |-> the table afterwards, isNewKey |-> the return value]
tableSetIn(h, table, key, value) ==
    The({The({
        [table |-> [count    |-> IF t.entries[e + 1].key = NULL
                                 THEN t.count + 1 ELSE t.count,
                    capacity |-> t.capacity,
                    entries  |-> [t.entries EXCEPT
                                    ![e + 1] = [key |-> key, value |-> value]]],
         isNewKey |-> t.entries[e + 1].key = NULL]
        : e \in {findEntry(h, t.entries, t.capacity, key)}})
        : t \in {IF MustGrow(table)
                 THEN adjustCapacity(h, table, GROW_CAPACITY(table.capacity))
                 ELSE table}})

\* tableGet: [found, value]
tableGet(h, table, key) ==
    IF table.count = 0 THEN [found |-> FALSE, value |-> NIL_VAL]
    ELSE The({IF table.entries[e + 1].key = NULL
              THEN [found |-> FALSE, value |-> NIL_VAL]
              ELSE [found |-> TRUE, value |-> table.entries[e + 1].value]
              : e \in {findEntry(h, table.entries, table.capacity, key)}})

\* A tableDelete that leaves the entry in place
tableDeleteKeeps(h, table, key) == table

\* tableDelete: the table afterwards
tableDelete(h, table, key) ==
    IF table.count = 0 THEN table
    ELSE The({IF table.entries[e + 1].key = NULL
              THEN table
              ELSE [table EXCEPT
                      !.entries[e + 1] = [key |-> NULL, value |-> BOOL_VAL(TRUE)]]
              : e \in {findEntry(h, table.entries, table.capacity, key)}})

RECURSIVE ProbeString(_, _, _, _, _, _)
ProbeString(h, table, chars, length, hash, index) ==
    LET entry == table.entries[index + 1]
    IN  IF entry.key = NULL
        THEN IF IS_NIL(entry.value)
             THEN NULL
             ELSE ProbeString(h, table, chars, length, hash,
                              (index + 1) % table.capacity)
        ELSE IF /\ h[entry.key].type = "OBJ_STRING"
                /\ h[entry.key].length = length
                /\ h[entry.key].hash = hash
                /\ h[entry.key].chars = chars
             THEN entry.key
             ELSE ProbeString(h, table, chars, length, hash,
                              (index + 1) % table.capacity)

\* A lookup that finds no string
tableFindStringMisses(h, table, chars, length, hash) == NULL

\* tableFindString: the interned string with these bytes, or NULL
tableFindString(h, table, chars, length, hash) ==
    IF table.count = 0 THEN NULL
    ELSE ProbeString(h, table, chars, length, hash,
                     HashMod(hash, table.capacity))

-----------------------------------------------------------------------------
(* The VM as one record, so that a handler's steps compose.                 *)
(* ret is "" while the dispatch loop goes on, else what run() returns.      *)
(* pinned holds the objects the operation under way works on: its object   *)
(* operands and the objects it has allocated so far.                       *)

VM ==
    [heap |-> heap, objects |-> objects, stack |-> stack, frames |-> frames,
     openUpvalues |-> openUpvalues, globals |-> globals, strings |-> strings,
     errors |-> errors, output |-> output, ub |-> ub, buffers |-> buffers,
     collected |-> FALSE, lost |-> lost, pinned |-> {}, ret |-> ""]

Undefined(v) == [v EXCEPT !.ub = TRUE]

\* The operation under way works on the objects of the set operands
Pin(v, operands) == [v EXCEPT !.pinned = @ \cup operands]

-----------------------------------------------------------------------------
(* Collector: src/src/lib/memory.c *)

ObjectsOf(values) == {AS_OBJ(x) : x \in {y \in values : IS_OBJ(y)}}

Range(seq) == {seq[i] : i \in 1 .. Len(seq)}

\* markTable: the key and the value of every entry
TableRefs(table) ==
    (LiveKeys(table) \cup
     ObjectsOf({table.entries[i].value : i \in 1 .. Len(table.entries)}))

\* blackenObject: the objects that tracing marks from object o.  The switch
\* has the cases OBJ_CLASS, OBJ_CLOSURE, OBJ_FUNCTION, OBJ_INSTANCE,
\* OBJ_UPVALUE, OBJ_NATIVE and OBJ_STRING.
blackenObject(h, o) ==
    LET obj == h[o]
    IN  CASE obj.type = "OBJ_CLASS"    -> {obj.name} \cup TableRefs(obj.methods)
          [] obj.type = "OBJ_CLOSURE"  -> ({obj.func} \cup Range(obj.upvalues))
                                            \ {NULL}
          [] obj.type = "OBJ_FUNCTION" -> ({obj.name} \ {NULL})
                                            \cup ObjectsOf(Range(obj.constants))
          [] obj.type = "OBJ_INSTANCE" -> {obj.klass} \cup TableRefs(obj.fields)
          [] obj.type = "OBJ_UPVALUE"  -> ObjectsOf({obj.closed})
          [] OTHER                     -> {}

\* markCompilerRoots: the function of every compiler of the chain
markCompilerRoots(compilers) == Range(compilers)

\* markRoots: stack slots, frame closures, open upvalues, globals, compilers
markRoots(v, compilers) ==
    ObjectsOf(Range(v.stack))
      \cup {v.frames[i].closure : i \in 1 .. Len(v.frames)}
      \cup Range(v.openUpvalues)
      \cup TableRefs(v.globals)
      \cup markCompilerRoots(compilers)

\* traceReferences: empty the grey stack; the objects marked at the end
RECURSIVE traceReferences(_, _, _)
traceReferences(h, marked, grey) ==
    IF grey = {} THEN marked
    ELSE The({The({traceReferences(h, marked \cup refs, (grey \ {o}) \cup refs)
              : refs \in {IF h[o].type = "FREE" THEN {}
                          ELSE blackenObject(h, o) \ marked}})
              : o \in {CHOOSE x \in grey : TRUE}})

\* The collector reads memory it must not read: a freed object that is
\* still referenced, or a methods table that was never initialised.
TraceUndefined(h, marked) ==
    \E o \in marked :
        \/ h[o].type = "FREE"
        \/ h[o].type = "OBJ_CLASS" /\ h[o].methods = GarbageTable

\* object->isMarked
IsMarked(h, o) == h[o].type # "FREE" /\ h[o].isMarked

SetMarks(h, marked) ==
    [a \in Addresses |->
        IF a \in marked /\ h[a].type # "FREE"
        THEN [h[a] EXCEPT !.isMarked = TRUE] ELSE h[a]]

RECURSIVE RemoveWhiteFrom(_, _, _)
RemoveWhiteFrom(h, table, i) ==
    IF i > Len(table.entries) THEN table
    ELSE LET key == table.entries[i].key
         IN  IF key # NULL /\ ~IsMarked(h, key)
             THEN RemoveWhiteFrom(h, tableDelete(h, table, key), i + 1)
             ELSE RemoveWhiteFrom(h, table, i + 1)

\* tableRemoveWhite: delete every entry whose key is not marked
tableRemoveWhite(h, table) == RemoveWhiteFrom(h, table, 1)

\* freeObject: the memory cell of the object afterwards.  The switch has
\* the cases OBJ_CLASS, OBJ_CLOSURE, OBJ_FUNCTION, OBJ_INSTANCE, OBJ_NATIVE,
\* OBJ_STRING and OBJ_UPVALUE; an object of another type keeps its memory.
\* FREE_ARRAY(char, string->chars, string->length + 1) for every string of
\* the set gone
FreeChars(v, gone) ==
    v.buffers - Cardinality({o \in gone : v.heap[o].type = "OBJ_STRING"})

freeObject(obj) ==
    IF obj.type \in {"OBJ_CLASS", "OBJ_CLOSURE", "OBJ_FUNCTION", "OBJ_INSTANCE",
                     "OBJ_NATIVE", "OBJ_STRING", "OBJ_UPVALUE"}
    THEN FreeCell
    ELSE obj

\* A sweep that leaves the marks of the objects it keeps
sweepKeepsMarks(v) ==
    The({[v EXCEPT
           !.objects = SelectSeq(v.objects, LAMBDA o : o \notin gone),
           !.heap = [a \in Addresses |->
                       IF a \in gone THEN freeObject(v.heap[a])
                       ELSE v.heap[a]],
           !.buffers = FreeChars(v, gone),
           !.lost = v.lost \/ gone \cap v.pinned # {},
           !.ub = v.ub \/ \E o \in gone :
                            /\ v.heap[o].type = "OBJ_CLASS"
                            /\ v.heap[o].methods = GarbageTable]
         : gone \in {{o \in Range(v.objects) : ~IsMarked(v.heap, o)}}})

\* sweep: unmarked objects are unlinked and handed to freeObject, the
\* marked ones stay linked with the mark cleared
sweep(v) ==
    The({[v EXCEPT
           !.objects = SelectSeq(v.objects, LAMBDA o : o \notin gone),
           !.heap = [a \in Addresses |->
                       IF a \in gone THEN freeObject(v.heap[a])
                       ELSE IF a \in Range(v.objects) /\ v.heap[a].type # "FREE"
                            THEN [v.heap[a] EXCEPT !.isMarked = FALSE]
                            ELSE v.heap[a]],
           !.buffers = FreeChars(v, gone),
           !.lost = v.lost \/ gone \cap v.pinned # {},
           !.ub = v.ub \/ \E o \in gone :
                            /\ v.heap[o].type = "OBJ_CLASS"
                            /\ v.heap[o].methods = GarbageTable]
         : gone \in {{o \in Range(v.objects) : ~IsMarked(v.heap, o)}}})

\* collectGarbage: markRoots, traceReferences, tableRemoveWhite, sweep
Marked(v, roots) == traceReferences(v.heap, roots, roots)

\* A collection that leaves the string pool as it is
RemoveWhiteSkipped(v) == v

\* tableRemoveWhite(vm, compiler, &vm->strings)
RemoveWhite(v) == [v EXCEPT !.strings = tableRemoveWhite(v.heap, v.strings)]

collectGarbage(v, compilers) ==
    The({sweep(RemoveWhite([v EXCEPT !.heap = SetMarks(v.heap, marked),
                                     !.collected = TRUE,
                                     !.ub = v.ub \/ TraceUndefined(v.heap, marked)]))
         : marked \in {Marked(v, markRoots(v, compilers))}})

\* reallocate with newSize > oldSize: the collector runs when the build
\* forces it (DEBUG_STRESS_GC) or bytesAllocated has passed nextGC
reallocate(v, compilers, gc) ==
    IF gc THEN collectGarbage(v, compilers) ELSE v

-----------------------------------------------------------------------------
(* Stack primitives: src/src/lib/vm.c *)

push(v, value) == [v EXCEPT !.stack = Append(@, value)]

\* pop below the stack base moves stackTop out of the array
pop(v) ==
    IF Len(v.stack) = 0 THEN Undefined(v)
    ELSE [v EXCEPT !.stack = SubSeq(@, 1, Len(@) - 1)]

\* peek(vm, distance) = stackTop[-1 - distance]
peek(v, distance) == v.stack[Len(v.stack) - distance]

CanPeek(v, distance) == Len(v.stack) - distance >= 1

resetStack(v) ==
    [v EXCEPT !.stack = <<>>, !.frames = <<>>, !.openUpvalues = <<>>]

runtimeError(v, message) ==
    resetStack([v EXCEPT !.errors = Append(@, message)])

-----------------------------------------------------------------------------
(* Objects: src/src/lib/object.c.  An allocating operator returns          *)
(* [v |-> the VM afterwards, o |-> the address of the new object].         *)

FreeAddresses(h) == {a \in Addresses : h[a].type = "FREE"}

Room(h, n) == Cardinality(FreeAddresses(h)) >= n

NewAddress(h) ==
    CHOOSE a \in FreeAddresses(h) : \A b \in FreeAddresses(h) : a <= b

\* allocateObject: reallocate(NULL, 0, size), then link into vm->objects
allocateObject(v, compilers, gc, obj) ==
    The({[v |-> [v1 EXCEPT !.heap[NewAddress(v1.heap)] = obj,
                           !.objects = <<NewAddress(v1.heap)>> \o @,
                           !.pinned = @ \cup {NewAddress(v1.heap)}],
          o |-> NewAddress(v1.heap)]
         : v1 \in {reallocate(v, compilers, gc)}})

\* A table of the VM: the globals, the string pool, or the table inside
\* an object (the fields of an instance, the methods of a class).
GlobalsRef == [kind |-> "globals", obj |-> NULL]

StringsRef == [kind |-> "strings", obj |-> NULL]

FieldsRef(o) == [kind |-> "fields", obj |-> o]

MethodsRef(o) == [kind |-> "methods", obj |-> o]

GetTable(v, ref) ==
    CASE ref.kind = "globals" -> v.globals
      [] ref.kind = "strings" -> v.strings
      [] ref.kind = "fields"  -> v.heap[ref.obj].fields
      [] ref.kind = "methods" -> v.heap[ref.obj].methods

PutTable(v, ref, table) ==
    CASE ref.kind = "globals" -> [v EXCEPT !.globals = table]
      [] ref.kind = "strings" -> [v EXCEPT !.strings = table]
      [] ref.kind = "fields"  -> [v EXCEPT !.heap[ref.obj].fields = table]
      [] ref.kind = "methods" -> [v EXCEPT !.heap[ref.obj].methods = table]

\* tableSet: [v |-> the VM afterwards, isNewKey |-> the return value].
\* adjustCapacity allocates the new entries before it rehashes.
tableSet(v, compilers, gc, ref, key, value) ==
    The({The({[v |-> PutTable(v1, ref, r.table), isNewKey |-> r.isNewKey]
         : r \in {tableSetIn(v1.heap, GetTable(v1, ref), key, value)}})
         : v1 \in {IF MustGrow(GetTable(v, ref))
                  THEN reallocate(v, compilers, gc) ELSE v}})

\* allocateString: the new string is on the stack while the pool grows
allocateString(v, compilers, gc, length, chars, hash) ==
    The({[v |-> pop(tableSet(push(r.v, OBJ_VAL(r.o)), compilers, gc,
                             StringsRef, r.o, NIL_VAL).v),
          o |-> r.o]
         : r \in {allocateObject(v, compilers, gc,
                     [type |-> "OBJ_STRING", isMarked |-> FALSE,
                      length |-> length, chars |-> chars, hash |-> hash])}})

\* ALLOCATE(char, length + 1)
AllocateChars(v, compilers, gc) ==
    [reallocate(v, compilers, gc) EXCEPT !.buffers = @ + 1]

\* FREE_ARRAY(char, chars, length + 1)
FreeArray(v) == [v EXCEPT !.buffers = @ - 1]

\* takeString: the caller's buffer becomes the string, or is released
takeString(v, compilers, gc, length, chars) ==
    The({IF interned # NULL THEN [v |-> FreeArray(v), o |-> interned]
         ELSE allocateString(v, compilers, gc, length, chars,
                             hashString(chars, length))
         : interned \in {tableFindString(v.heap, v.strings, chars, length,
                                         hashString(chars, length))}})

\* copyString: ALLOCATE(char, length + 1), then allocateString
copyString(v, compilers, gc, length, chars) ==
    The({IF interned # NULL THEN [v |-> v, o |-> interned]
         ELSE allocateString(AllocateChars(v, compilers, gc), compilers, gc,
                             length, chars, hashString(chars, length))
         : interned \in {tableFindString(v.heap, v.strings, chars, length,
                                         hashString(chars, length))}})

newFunction(v, compilers, gc) ==
    allocateObject(v, compilers, gc,
        [type |-> "OBJ_FUNCTION", isMarked |-> FALSE, arity |-> 0,
         upvalueCount |-> 0, name |-> NULL, code |-> <<>>, constants |-> <<>>])

newInstance(v, compilers, gc, klass) ==
    allocateObject(v, compilers, gc,
        [type |-> "OBJ_INSTANCE", isMarked |-> FALSE, klass |-> klass,
         fields |-> initTable])

\* newClass sets the name only: the methods table holds what the
\* allocated memory held (mem)
newClass(v, compilers, gc, name, mem) ==
    allocateObject(v, compilers, gc,
        [type |-> "OBJ_CLASS", isMarked |-> FALSE, name |-> name,
         methods |-> mem])

\* newClosure: ALLOCATE(ObjUpvalue *, upvalueCount), then the object
newClosure(v, compilers, gc, func) ==
    allocateObject(IF v.heap[func].upvalueCount > 0
                   THEN reallocate(Pin(v, {func}), compilers, gc)
                   ELSE Pin(v, {func}),
                   compilers, gc,
        [type |-> "OBJ_CLOSURE", isMarked |-> FALSE, func |-> func,
         upvalues |-> [i \in 1 .. v.heap[func].upvalueCount |-> NULL],
         upvalueCount |-> v.heap[func].upvalueCount])

newNative(v, compilers, gc, func, arity) ==
    allocateObject(v, compilers, gc,
        [type |-> "OBJ_NATIVE", isMarked |-> FALSE, arity |-> arity,
         func |-> func])

\* location: the stack slot the upvalue points to while it is open
newUpvalue(v, compilers, gc, slot) ==
    allocateObject(v, compilers, gc,
        [type |-> "OBJ_UPVALUE", isMarked |-> FALSE, open |-> TRUE,
         location |-> slot, closed |-> NIL_VAL])

newBoundMethod(v, compilers, gc, receiver, method) ==
    allocateObject(v, compilers, gc,
        [type |-> "OBJ_BOUND_METHOD", isMarked |-> FALSE,
         receiver |-> receiver, method |-> method])

-----------------------------------------------------------------------------
(* Calls, upvalues, methods and strings: src/src/lib/vm.c.                 *)
(* A frame is [closure, ip, slots]: ip is the 1-based index of the next    *)
(* instruction of the closure's function, slots the 0-based index of the   *)
(* frame's slot 0 in the stack (negative after a reset made by call).      *)

FRAMES_MAX == 64

\* run(vm, NULL): no compiler is active while bytecode executes
NoCompiler == <<>>

InStack(v, index) == 0 <= index /\ index < Len(v.stack)

\* *slot for a pointer into the stack; slots outside [stack, stackTop)
\* hold no value of the program
ReadSlot(v, index) == IF InStack(v, index) THEN v.stack[index + 1] ELSE NIL_VAL

WriteSlot(v, index, value) ==
    IF InStack(v, index) THEN [v EXCEPT !.stack[index + 1] = value]
    ELSE Undefined(v)

call(v, closure, argCount) ==
    IF argCount # v.heap[v.heap[closure].func].arity
    THEN [v |-> runtimeError(v, "Expected arguments"), ok |-> FALSE]
    ELSE The({[v |-> [v1 EXCEPT !.frames = Append(@,
                        [closure |-> closure, ip |-> 1,
                         slots |-> Len(v1.stack) - argCount - 1])],
               ok |-> TRUE]
              : v1 \in {IF Len(v.frames) = FRAMES_MAX
                       THEN runtimeError(v, "Stack overflow") ELSE v}})

\* t: the number the native returns
callValue(v, gc, callee, argCount, t) ==
    LET calleeSlot == Len(v.stack) - argCount - 1
        type == IF IS_OBJ(callee) THEN v.heap[AS_OBJ(callee)].type ELSE "none"
    IN  CASE type = "OBJ_BOUND_METHOD" ->
               call(WriteSlot(v, calleeSlot, v.heap[AS_OBJ(callee)].receiver),
                    v.heap[AS_OBJ(callee)].method, argCount)
          [] type = "OBJ_CLASS" ->
               The({[v |-> WriteSlot(r.v, calleeSlot, OBJ_VAL(r.o)), ok |-> TRUE]
                    : r \in {newInstance(v, NoCompiler, gc, AS_OBJ(callee))}})
          [] type = "OBJ_CLOSURE" -> call(v, AS_OBJ(callee), argCount)
          [] type = "OBJ_NATIVE" ->
               IF argCount # v.heap[AS_OBJ(callee)].arity
               THEN [v |-> runtimeError(v, "Expected arguments"), ok |-> FALSE]
               ELSE [v |-> push([v EXCEPT !.stack = SubSeq(@, 1, calleeSlot)],
                               NUMBER_VAL(t)),
                     ok |-> TRUE]
          [] OTHER ->
               [v |-> runtimeError(v, "Can only call functions and classes."),
                ok |-> FALSE]

bindMethod(v, gc, klass, name) ==
    IF v.heap[klass].methods = GarbageTable
    THEN [v |-> Undefined(v), ok |-> FALSE]
    ELSE The({IF ~method.found
              THEN [v |-> runtimeError(v, "Undefined property"), ok |-> FALSE]
              ELSE The({[v |-> push(pop(r.v), OBJ_VAL(r.o)), ok |-> TRUE]
                        : r \in {newBoundMethod(v, NoCompiler, gc, peek(v, 0),
                                                AS_OBJ(method.value))}})
              : method \in {tableGet(v.heap, v.heap[klass].methods, name)}})

\* The open upvalues before the first one that is not above local
RECURSIVE UpvaluesAbove(_, _, _)
UpvaluesAbove(h, list, local) ==
    IF list # <<>> /\ h[Head(list)].location > local
    THEN 1 + UpvaluesAbove(h, Tail(list), local)
    ELSE 0

\* captureUpvalue that puts every upvalue it is asked for at the head of
\* the list
captureUpvalueAtHead(v, gc, local) ==
    The({[v |-> [r.v EXCEPT !.openUpvalues = <<r.o>> \o v.openUpvalues],
          o |-> r.o]
         : r \in {newUpvalue(v, NoCompiler, gc, local)}})

\* captureUpvalue: [v |-> the VM afterwards, o |-> the upvalue of the slot]
captureUpvalue(v, gc, local) ==
    LET n    == UpvaluesAbove(v.heap, v.openUpvalues, local)
        rest == SubSeq(v.openUpvalues, n + 1, Len(v.openUpvalues))
    IN  IF rest # <<>> /\ v.heap[Head(rest)].location = local
        THEN [v |-> v, o |-> Head(rest)]
        ELSE The({[v |-> [r.v EXCEPT !.openUpvalues =
                            SubSeq(v.openUpvalues, 1, n) \o <<r.o>> \o rest],
                   o |-> r.o]
                  : r \in {newUpvalue(v, NoCompiler, gc, local)}})

RECURSIVE closeUpvalues(_, _)
closeUpvalues(v, last) ==
    IF v.openUpvalues # <<>> /\ v.heap[Head(v.openUpvalues)].location >= last
    THEN LET upvalue == Head(v.openUpvalues)
             slot    == v.heap[upvalue].location
             v1 == [v EXCEPT !.heap[upvalue].closed = ReadSlot(v, slot),
                             !.heap[upvalue].open = FALSE,
                             !.openUpvalues = Tail(@),
                             !.ub = v.ub \/ ~InStack(v, slot)]
         IN  closeUpvalues(v1, last)
    ELSE v

\* *upvalue->location
ReadUpvalue(v, upvalue) ==
    IF v.heap[upvalue].open THEN ReadSlot(v, v.heap[upvalue].location)
    ELSE v.heap[upvalue].closed

WriteUpvalue(v, upvalue, value) ==
    IF v.heap[upvalue].open THEN WriteSlot(v, v.heap[upvalue].location, value)
    ELSE [v EXCEPT !.heap[upvalue].closed = value]

\* defineMethod: klass is AS_CLASS of the value on top of the stack
defineMethod(v, gc, name) ==
    LET method == peek(v, 0)
        klass  == AS_OBJ(method)
    IN  IF v.heap[klass].type = "OBJ_CLASS" /\ v.heap[klass].methods # GarbageTable
        THEN pop(tableSet(v, NoCompiler, gc, MethodsRef(klass), name, method).v)
        ELSE Undefined(pop(v))

\* concatenate: b and a are both read with peek(vm, 0)
concatenate(v, gc) ==
    LET b == v.heap[AS_OBJ(peek(v, 0))]
        a == v.heap[AS_OBJ(peek(v, 0))]
    IN  The({push(pop(pop(r.v)), OBJ_VAL(r.o))
             : r \in {takeString(
                          AllocateChars(Pin(v, ObjectsOf({peek(v, 0), peek(v, 1)})),
                                        NoCompiler, gc),
                          NoCompiler, gc, a.length + b.length,
                          a.chars \o b.chars)}})

\* defineNative(vm, NULL, name, func, arity), called by initVM
defineNative(v, gc, name, func, arity) ==
    The({The({The({
        pop(pop(tableSet(v2, NoCompiler, gc, GlobalsRef, AS_OBJ(v2.stack[1]),
                         v2.stack[2]).v))
        : v2 \in {push(n.v, OBJ_VAL(n.o))}})
        : n \in {newNative(push(s.v, OBJ_VAL(s.o)), NoCompiler, gc, func, arity)}})
        : s \in {copyString(v, NoCompiler, gc, Len(name), name)}})

-----------------------------------------------------------------------------
(* The cases of the dispatch loop of run(): src/src/lib/vm.c.  Each takes  *)
(* the VM after the opcode and its operands were read and gives the VM     *)
(* after the case; ret is the value run() returns, "" while it loops on.   *)

Return(v, r) == [v EXCEPT !.ret = r]

\* frame: the frame run() executes in
Frame(v) == v.frames[Len(v.frames)]

\* READ_CONSTANT() with the operand already read
READ_CONSTANT(v, index) ==
    v.heap[v.heap[Frame(v).closure].func].constants[index + 1]

READ_STRING(v, index) == AS_OBJ(READ_CONSTANT(v, index))

\* printValue: what is written to stdout for a value
printValue(h, value) ==
    IF IS_OBJ(value)
    THEN IF h[AS_OBJ(value)].type = "OBJ_STRING"
         THEN [type |-> "chars", as |-> h[AS_OBJ(value)].chars]
         ELSE [type |-> h[AS_OBJ(value)].type, as |-> <<>>]
    ELSE [type |-> value.type, as |-> <<value.as>>]

valuesEqual(a, b) == a = b

OP_CONSTANT(v, index) == push(v, READ_CONSTANT(v, index))

OP_NIL(v) == push(v, NIL_VAL)

OP_TRUE(v) == push(v, BOOL_VAL(TRUE))

OP_FALSE(v) == push(v, BOOL_VAL(FALSE))

OP_POP(v) == pop(v)

OP_GET_LOCAL(v, slot) ==
    LET index == Frame(v).slots + slot
    IN  IF InStack(v, index) THEN push(v, ReadSlot(v, index)) ELSE Undefined(v)

OP_GET_GLOBAL(v, index) ==
    The({IF ~value.found
         THEN Return(runtimeError(v, "Undefined variable"), "RUNTIME_ERR")
         ELSE push(v, value.value)
         : value \in {tableGet(v.heap, v.globals, READ_STRING(v, index))}})

OP_DEFINE_GLOBAL(v, index, gc) ==
    pop(tableSet(v, NoCompiler, gc, GlobalsRef, READ_STRING(v, index),
                 peek(v, 0)).v)

OP_SET_LOCAL(v, slot) == WriteSlot(v, Frame(v).slots + slot, peek(v, 0))

OP_SET_GLOBAL(v, index, gc) ==
    The({IF r.isNewKey
         THEN Return(runtimeError(
                         [r.v EXCEPT !.globals = tableDelete(r.v.heap, @,
                                                     READ_STRING(v, index))],
                         "Undefined variable"),
                     "RUNTIME_ERR")
         ELSE r.v
         : r \in {tableSet(v, NoCompiler, gc, GlobalsRef, READ_STRING(v, index),
                          peek(v, 0))}})

\* frame->closure->upvalues[slot]
FrameUpvalue(v, slot) ==
    LET upvalues == v.heap[Frame(v).closure].upvalues
    IN  IF slot < Len(upvalues) THEN upvalues[slot + 1] ELSE NULL

OP_GET_UPVALUE(v, slot) ==
    LET upvalue == FrameUpvalue(v, slot)
    IN  IF upvalue = NULL \/ v.heap[upvalue].type # "OBJ_UPVALUE"
           \/ (v.heap[upvalue].open /\ ~InStack(v, v.heap[upvalue].location))
        THEN Undefined(v)
        ELSE push(v, ReadUpvalue(v, upvalue))

OP_SET_UPVALUE(v, slot) ==
    LET upvalue == FrameUpvalue(v, slot)
    IN  IF upvalue = NULL \/ v.heap[upvalue].type # "OBJ_UPVALUE"
        THEN Undefined(v)
        ELSE WriteUpvalue(v, upvalue, peek(v, 0))

OP_GET_PROPERTY(v, index, gc) ==
    IF ~IS_INSTANCE(v.heap, peek(v, 0))
    THEN Return(runtimeError(v, "Only instances have properties."),
                "RUNTIME_ERR")
    ELSE The({IF value.found THEN push(pop(v), value.value)
              ELSE The({IF r.ok \/ r.v.ub THEN r.v
                        ELSE Return(r.v, "RUNTIME_ERR")
                        : r \in {bindMethod(v, gc,
                                    v.heap[AS_OBJ(peek(v, 0))].klass,
                                    READ_STRING(v, index))}})
              : value \in {tableGet(v.heap, v.heap[AS_OBJ(peek(v, 0))].fields,
                                    READ_STRING(v, index))}})

OP_SET_PROPERTY(v, index, gc) ==
    IF ~IS_INSTANCE(v.heap, peek(v, 1))
    THEN Return(runtimeError(v, "Only instances have fields."), "RUNTIME_ERR")
    ELSE The({push(pop(pop(v1)), peek(v1, 0))
              : v1 \in {tableSet(v, NoCompiler, gc, FieldsRef(AS_OBJ(peek(v, 1))),
                                READ_STRING(v, index), peek(v, 0)).v}})

OP_EQUAL(v) ==
    push(pop(pop(v)), BOOL_VAL(valuesEqual(peek(v, 1), peek(v, 0))))

\* BINARY_OP(valueType, op): Apply(a, b) is valueType(a op b)
BINARY_OP(v, Apply(_, _)) ==
    IF ~IS_NUMBER(peek(v, 0)) \/ ~IS_NUMBER(peek(v, 1))
    THEN Return(runtimeError(v, "Operands must be numbers."), "RUNTIME_ERR")
    ELSE push(pop(pop(v)), Apply(peek(v, 1).as, peek(v, 0).as))

OP_GREATER(v) == BINARY_OP(v, LAMBDA a, b : BOOL_VAL(a > b))

OP_LESS(v) == BINARY_OP(v, LAMBDA a, b : BOOL_VAL(a < b))

OP_ADD(v, gc) ==
    IF IS_STRING(v.heap, peek(v, 0)) /\ IS_STRING(v.heap, peek(v, 1))
    THEN concatenate(v, gc)
    ELSE IF IS_NUMBER(peek(v, 0)) /\ IS_NUMBER(peek(v, 1))
    THEN push(pop(pop(v)), NUMBER_VAL(peek(v, 1).as + peek(v, 0).as))
    ELSE Return(runtimeError(v, "Operands must be two numbers or two strings."),
                "RUNTIME_ERR")

OP_SUBTRACT(v) == BINARY_OP(v, LAMBDA a, b : NUMBER_VAL(a - b))

OP_MULTIPLY(v) == BINARY_OP(v, LAMBDA a, b : NUMBER_VAL(a * b))

OP_NOT(v) == push(pop(v), BOOL_VAL(isFalsey(peek(v, 0))))

OP_NEGATE(v) ==
    IF ~IS_NUMBER(peek(v, 0))
    THEN Return(runtimeError(v, "Operand must be a number."), "RUNTIME_ERR")
    ELSE push(pop(v), NUMBER_VAL(0 - peek(v, 0).as))

OP_PRINT(v) ==
    [pop(v) EXCEPT !.output = Append(@, printValue(v.heap, peek(v, 0)))]

\* ip counts instructions: offset is the number of instructions jumped over
OP_JUMP(v, offset) == [v EXCEPT !.frames[Len(v.frames)].ip = @ + offset]

OP_JUMP_IF_FALSE(v, offset) ==
    IF isFalsey(peek(v, 0)) THEN OP_JUMP(v, offset) ELSE v

OP_LOOP(v, offset) == [v EXCEPT !.frames[Len(v.frames)].ip = @ - offset]

OP_CALL(v, argCount, gc, t) ==
    The({IF r.ok THEN r.v ELSE Return(r.v, "RUNTIME_ERR")
         : r \in {callValue(v, gc, peek(v, argCount), argCount, t)}})

\* The loop of OP_CLOSURE over the (isLocal, index) pairs that follow
RECURSIVE CaptureAll(_, _, _, _, _)
CaptureAll(v, gc, closure, pairs, idx) ==
    IF idx > Len(pairs) THEN v
    ELSE LET isLocal == pairs[idx][1]
             index   == pairs[idx][2]
         IN  IF isLocal # 0
             THEN The({CaptureAll(
                           [r.v EXCEPT !.heap[closure].upvalues[idx] = r.o],
                           gc, closure, pairs, idx + 1)
                       : r \in {captureUpvalue(v, gc, Frame(v).slots + index)}})
             ELSE IF FrameUpvalue(v, index) = NULL THEN Undefined(v)
             ELSE CaptureAll(
                      [v EXCEPT !.heap[closure].upvalues[idx] =
                                    FrameUpvalue(v, index)],
                      gc, closure, pairs, idx + 1)

OP_CLOSURE(v, index, pairs, gc) ==
    IF Len(pairs) # v.heap[AS_OBJ(READ_CONSTANT(v, index))].upvalueCount
    THEN Undefined(v)
    ELSE The({CaptureAll(push(r.v, OBJ_VAL(r.o)), gc, r.o, pairs, 1)
              : r \in {newClosure(v, NoCompiler, gc,
                                  AS_OBJ(READ_CONSTANT(v, index)))}})

OP_CLOSE_UPVALUE(v) == pop(closeUpvalues(v, Len(v.stack) - 1))

OP_RETURN(v) ==
    The({IF v2.frames = <<>> THEN Return(pop(v2), "OK")
         ELSE IF Frame(v).slots < 0 \/ Frame(v).slots > Len(v2.stack)
         THEN Undefined(v2)
         ELSE push([v2 EXCEPT !.stack = SubSeq(@, 1, Frame(v).slots)],
                   peek(v, 0))
         : v2 \in {[closeUpvalues(pop(v), Frame(v).slots)
                      EXCEPT !.frames = SubSeq(@, 1, Len(@) - 1)]}})

\* mem: what the memory of the new class holds where its methods table is
OP_CLASS(v, index, gc, mem) ==
    The({push(r.v, OBJ_VAL(r.o))
         : r \in {newClass(v, NoCompiler, gc, READ_STRING(v, index), mem)}})

OP_METHOD(v, index, gc) == defineMethod(v, gc, READ_STRING(v, index))

OP_DIVIDE(v) == BINARY_OP(v, LAMBDA a, b : NUMBER_VAL(a \div b))

-----------------------------------------------------------------------------
(* compile(): src/src/lib/compiler.c.  What compile() leaves in the heap   *)
(* for a source text is given as a compiled unit: a sequence of function   *)
(* prototypes, the script first.  A prototype has the function's name (<<>>*)
(* for the script), its arity and upvalueCount, its code and the           *)
(* constants of its chunk as [k, n, chars]: a number n, the string chars,  *)
(* or the function of prototype n.  An instruction is [op, a, pairs]: the  *)
(* opcode, its operand and, for OP_CLOSURE, the (isLocal, index) pairs.    *)

Op(op) == [op |-> op, a |-> 0, pairs |-> <<>>]

Op1(op, a) == [op |-> op, a |-> a, pairs |-> <<>>]

Closure(a, pairs) == [op |-> "OP_CLOSURE", a |-> a, pairs |-> pairs]

Num(n) == [k |-> "num", n |-> n, chars |-> <<>>]

Str(chars) == [k |-> "str", n |-> 0, chars |-> chars]

Fun(n) == [k |-> "fun", n |-> n, chars |-> <<>>]

Proto(name, arity, upvalueCount, code, constants) ==
    [name |-> name, arity |-> arity, upvalueCount |-> upvalueCount,
     code |-> code, constants |-> constants]

\* How the compiler resolves the variables of nested functions.  A Compiler
\* is [locals, upvalues]: locals[s + 1] is the name of the local of slot s,
\* upvalues holds the func->upvalueCount entries of the upvalues array that
\* were written; the rest of the array is what the memory of the Compiler
\* held before, since initCompiler does not write it.  The compilers of the
\* functions being compiled are a sequence cs, the script first: the
\* enclosing compiler of cs[k] is cs[k - 1], that of cs[1] is NULL.  Every
\* local of the model is initialised (depth # -1).  isCaptured is only read
\* by endScope and is left out: no scope of the modelled sources ends
\* before its function returns.

\* resolveLocal: the slot of the last local of that name, or -1
resolveLocal(compiler, name) ==
    LET found == {s \in 1 .. Len(compiler.locals) : compiler.locals[s] = name}
    IN  IF found = {} THEN -1
        ELSE (CHOOSE s \in found : \A t \in found : t <= s) - 1

\* addUpvalue: [c |-> the compiler afterwards, o |-> the index returned];
\* the new entry takes "index = isLocal" as its index
addUpvalue(compiler, index, isLocal) ==
    LET same == {n \in 1 .. Len(compiler.upvalues) :
                   /\ compiler.upvalues[n].index = index
                   /\ compiler.upvalues[n].isLocal = isLocal}
    IN  IF same # {}
        THEN [c |-> compiler,
              o |-> (CHOOSE n \in same : \A m \in same : n <= m) - 1]
        ELSE [c |-> [compiler EXCEPT !.upvalues =
                        Append(@, [isLocal |-> isLocal,
                                   index |-> IF isLocal THEN 1 ELSE 0])],
              o |-> Len(compiler.upvalues)]

\* resolveUpvalue for the compiler cs[k]: [cs |-> the compilers afterwards,
\* o |-> the index returned]; resolveLocal is asked of cs[k] itself
RECURSIVE resolveUpvalue(_, _, _)
resolveUpvalue(cs, k, name) ==
    IF k = 1 THEN [cs |-> cs, o |-> -1]
    ELSE IF resolveLocal(cs[k], name) # -1
    THEN The({[cs |-> [cs EXCEPT ![k] = r.c], o |-> r.o]
              : r \in {addUpvalue(cs[k], resolveLocal(cs[k], name), TRUE)}})
    ELSE The({IF upvalue.o = -1 THEN [cs |-> upvalue.cs, o |-> -1]
              ELSE The({[cs |-> [upvalue.cs EXCEPT ![k] = r.c], o |-> r.o]
                        : r \in {addUpvalue(upvalue.cs[k], upvalue.o, FALSE)}})
              : upvalue \in {resolveUpvalue(cs, k - 1, name)}})

\* namedVariable in the innermost compiler: the opcodes chosen and their
\* operand; constant is what identifierConstant returns for the name
namedVariable(cs, name, constant) ==
    IF resolveLocal(cs[Len(cs)], name) # -1
    THEN [cs |-> cs, getOp |-> "OP_GET_LOCAL", setOp |-> "OP_SET_LOCAL",
          arg |-> resolveLocal(cs[Len(cs)], name)]
    ELSE The({IF r.o # -1
              THEN [cs |-> r.cs, getOp |-> "OP_GET_UPVALUE",
                    setOp |-> "OP_SET_UPVALUE", arg |-> r.o]
              ELSE [cs |-> r.cs, getOp |-> "OP_GET_GLOBAL",
                    setOp |-> "OP_SET_GLOBAL", arg |-> constant]
              : r \in {resolveUpvalue(cs, Len(cs), name)}})

\* The loop that ends function(): upvalueCount pairs, read from the
\* upvalues array of the compiler the OP_CLOSURE is emitted into; an entry
\* never written holds stale
EmittedPairs(compiler, upvalueCount, stale) ==
    [idx \in 1 .. upvalueCount |->
        IF idx <= Len(compiler.upvalues)
        THEN <<IF compiler.upvalues[idx].isLocal THEN 1 ELSE 0,
               compiler.upvalues[idx].index>>
        ELSE <<IF stale.isLocal THEN 1 ELSE 0, stale.index>>]

\* The objects compile() allocates for prototype i of a unit: initCompiler
\* makes the function and its name, makeConstant adds the constants
\* The object r.o as a constant of a chunk
Constant(r) == [v |-> r.v, value |-> OBJ_VAL(r.o)]

\* writeValueArray grows the array when it is full: the capacities are
\* 0, 8, 16, ...
ArrayGrows(count) == count \in {0, 8, 16, 32, 64, 128}

UINT8_COUNT == 256

\* The capacity of a ValueArray is a uint8_t: the array that is full at
\* count takes the capacity 0 when it grows, reallocate to 0 bytes frees it
\* and the value is written through the NULL it returns
ArrayOverflows(count) ==
    ArrayGrows(count) /\ GROW_CAPACITY(count) % UINT8_COUNT = 0

\* writeValueArray(vm, compiler, &func->chunk.constants, value)
writeValueArray(v, compilers, gc, func, value) ==
    The({IF \/ v1.heap[func].type # "OBJ_FUNCTION"
            \/ ArrayOverflows(Len(v.heap[func].constants))
         THEN Undefined(v1)
         ELSE [v1 EXCEPT !.heap[func].constants = Append(@, value)]
         : v1 \in {IF ArrayGrows(Len(v.heap[func].constants))
                  THEN reallocate(v, compilers, gc) ELSE v}})

\* An addConstant that does not push the value
addConstantUnrooted(v, compilers, gc, func, value) ==
    writeValueArray(Pin(v, ObjectsOf({value})), compilers, gc, func, value)

\* addConstant: the value is on the stack while the array grows
addConstant(v, compilers, gc, func, value) ==
    The({pop(v2)
         : v2 \in {The({writeValueArray(v1, compilers, gc, func, value)
                        : v1 \in {push(Pin(v, ObjectsOf({value})), value)}})}})

\* writeChunk when the code array is full: GROW_ARRAY of code and lines
writeChunk(v, compilers, gc) == reallocate(v, compilers, gc)

\* makeConstant and the emitBytes that follows it
EmitConstant(r, compilers, gc, func) ==
    The({writeChunk(v1, compilers, gc)
         : v1 \in {addConstant(r.v, compilers, gc, func, r.value)}})

\* compilers: the functions of the compilers from the script to the one
\* that is compiling, which markCompilerRoots marks.  initCompiler makes
\* the function while compiler->func is NULL, then its name.
RECURSIVE LoadFunction(_, _, _, _, _)
RECURSIVE LoadConstants(_, _, _, _, _, _, _)
LoadFunction(v, unit, i, compilers, gc) ==
    The({The({
        [v |-> [LoadConstants([n.v EXCEPT !.heap[f.o].name = n.o], unit, f.o,
                              unit[i].constants, 1, Append(compilers, f.o), gc)
                  EXCEPT !.heap[f.o].arity = unit[i].arity,
                         !.heap[f.o].upvalueCount = unit[i].upvalueCount,
                         !.heap[f.o].code = unit[i].code],
         o |-> f.o]
        : n \in {IF unit[i].name = <<>> THEN [v |-> f.v, o |-> NULL]
                ELSE copyString(f.v, Append(compilers, f.o), gc,
                                Len(unit[i].name), unit[i].name)}})
        : f \in {newFunction(v, compilers, gc)}})

LoadConstants(v, unit, func, constants, i, compilers, gc) ==
    IF i > Len(constants) THEN writeChunk(v, compilers, gc)
    ELSE The({The({LoadConstants(v1, unit, func, constants, i + 1,
                                 compilers, gc)
                   : v1 \in {EmitConstant(r, compilers, gc, func)}})
              : r \in {CASE constants[i].k = "num" ->
                             [v |-> v, value |-> NUMBER_VAL(constants[i].n)]
                        [] constants[i].k = "str" ->
                             Constant(copyString(v, compilers, gc,
                                                 Len(constants[i].chars),
                                                 constants[i].chars))
                        [] constants[i].k = "fun" ->
                             Constant(LoadFunction(v, unit, constants[i].n,
                                                   compilers, gc))}})

\* The class declarations in the code of prototype i and those after it
RECURSIVE ClassDeclarations(_, _)
ClassDeclarations(unit, i) ==
    IF i > Len(unit) THEN 0
    ELSE Cardinality({k \in 1 .. Len(unit[i].code) :
                        unit[i].code[k].op = "OP_CLASS"})
           + ClassDeclarations(unit, i + 1)

\* The pop(vm) classDeclaration makes after the class body, n times
RECURSIVE PopClasses(_, _)
PopClasses(r, n) ==
    IF n = 0 THEN r ELSE PopClasses([r EXCEPT !.v = pop(r.v)], n - 1)

\* compile(): the script function, and the VM with what compiling did to it
compile(v, unit, gc) ==
    PopClasses(LoadFunction(v, unit, 1, NoCompiler, gc),
               ClassDeclarations(unit, 1))

\* An upper bound of the objects compile() and interpret() allocate
RECURSIVE ObjectsOfUnit(_, _)
ObjectsOfUnit(unit, i) ==
    IF i > Len(unit) THEN 1
    ELSE 2 + Len(unit[i].constants) + ObjectsOfUnit(unit, i + 1)

\* interpret() after compile(): wrap the script function in a closure and
\* call it; run() follows
EnterRun(func, gc) ==
    The({The({call(push(pop(closure.v), OBJ_VAL(closure.o)), closure.o, 0).v
              : closure \in {newClosure(v1, NoCompiler, gc, func.o)}})
         : v1 \in {push(func.v, OBJ_VAL(func.o))}})

interpret(v, unit, gc) ==
    The({EnterRun(func, gc) : func \in {compile(v, unit, gc)}})

-----------------------------------------------------------------------------
(* The parser: src/src/lib/compiler.c.  A source text is the sequence of   *)
(* tokens scanToken returns for it, a token is its type and its lexeme.    *)
(* The Parser, the script's Compiler and the script's chunk are one record *)
(* p: text holds the tokens of the source, source those not scanned yet,   *)
(* code the instructions                                                   *)
(* emitted (positions and jump distances count instructions, as ip       *)
(* does), constants the chunk's constants as they are written in a      *)
(* compiled unit, locals and depths the names and depths of the locals,    *)
(* currentClass the ClassCompilers from the outermost to the current one   *)
(* (<<>> is NULL), reported what errorAt wrote to stderr, pc the place     *)
(* compile() has reached, ub that it has executed undefined behaviour,   *)
(* starts the positions of the code where a declaration of the script     *)
(* starts or ends.                                                         *)
(* code, constants, locals, depths, captured (isCaptured of the locals),    *)
(* scopeDepth, ftype, arity, name and upvalues are those of the Compiler   *)
(* that is compiling; enclosing holds the same fields of the Compilers     *)
(* around it, the script's first, and functions the prototypes of the      *)
(* functions endCompiler has finished: function j is prototype j + 1 of    *)
(* the unit compile() makes.                                               *)

Token(type, lexeme) == [type |-> type, lexeme |-> lexeme]

\* What the memory of a Parser holds before compile() writes it
Unwritten == Token("unwritten", <<>>)

this == <<116, 104, 105, 115>>

super == <<115, 117, 112, 101, 114>>

init == <<105, 110, 105, 116>>

NoParser ==
    [pc |-> "idle", text |-> <<>>, source |-> <<>>, previous |-> Unwritten,
     current |-> Unwritten, hadError |-> FALSE, panicMode |-> FALSE,
     reported |-> <<>>, code |-> <<>>, constants |-> <<>>, locals |-> <<>>,
     depths |-> <<>>, captured |-> <<>>, scopeDepth |-> 0,
     ftype |-> "TYPE_SCRIPT", arity |-> 0, name |-> <<>>, upvalues |-> <<>>,
     enclosing |-> <<>>, functions |-> <<>>, currentClass |-> <<>>,
     ub |-> FALSE, starts |-> {}]

\* Nothing is written once a synchronize inside a block or a class body
\* has stopped returning (pc = "hung")
errorAt(p, token, message) ==
    IF p.panicMode \/ p.pc = "hung" THEN p
    ELSE [p EXCEPT !.panicMode = TRUE,
                   !.reported = Append(@, [at |-> token.type,
                                           message |-> message]),
                   !.hadError = TRUE]

error(p, message) == errorAt(p, p.previous, message)

errorAtCurrent(p, message) == errorAt(p, p.current, message)

\* scanToken at the end of the source returns TOKEN_EOF, again and again
scanToken(source) ==
    IF source = <<>> THEN Token("TOKEN_EOF", <<>>) ELSE Head(source)

\* The loop of advance: an error token is reported with its message and
\* the next token is scanned
RECURSIVE Scanned(_)
Scanned(p) ==
    The({IF p1.current.type # "TOKEN_ERROR" THEN p1
         ELSE The({Scanned(p2)
                   : p2 \in {errorAtCurrent(p1, "Unexpected character.")}})
         : p1 \in {[p EXCEPT !.current = scanToken(p.source),
                            !.source = IF p.source = <<>> THEN <<>>
                                       ELSE Tail(p.source)]}})

advance(p) == Scanned([p EXCEPT !.previous = p.current])

consume(p, type, message) ==
    IF p.current.type = type THEN advance(p) ELSE errorAtCurrent(p, message)

check(p, type) == p.current.type = type

\* match: the parser afterwards; it returns check(p, type)
match(p, type) == IF check(p, type) THEN advance(p) ELSE p

\* emitByte of an opcode, and of its operand bytes with it
emitByte(p, instruction) == [p EXCEPT !.code = Append(@, instruction)]

emitBytes(p, op, a) == emitByte(p, Op1(op, a))

UINT16_MAX == 65535

\* emitJump: the position it returns is that of the instruction emitted,
\* Len(code) afterwards
emitJump(p, op) == emitByte(p, [op |-> op, a |-> 0, pairs |-> <<255, 255>>])

\* (offset >> 8) & 0xff, then offset & 0xff: the two operand bytes of a
\* jump, kept in pairs
ShortBytes(offset) == <<(offset \div 256) % 256, offset % 256>>

emitLoop(p, loopStart) ==
    IF Len(p.code) + 2 - loopStart > UINT16_MAX
    THEN emitByte(error(p, "Loop body too large."),
                  [op |-> "OP_LOOP", a |-> 0,
                   pairs |-> ShortBytes(Len(p.code) + 2 - loopStart)])
    ELSE emitByte(p, [op |-> "OP_LOOP", a |-> 0,
                      pairs |-> ShortBytes(Len(p.code) + 2 - loopStart)])

emitReturn(p) ==
    emitByte(IF p.ftype = "TYPE_INITIALIZER"
             THEN emitBytes(p, "OP_GET_LOCAL", 0)
             ELSE emitByte(p, Op("OP_NIL")),
             Op("OP_RETURN"))

\* addConstant as the parser sees it: the value is appended to the
\* constants
Added(p, value) ==
    [p EXCEPT !.constants = Append(@, value),
              !.ub = @ \/ ArrayOverflows(Len(p.constants))]

\* makeConstant: [p |-> the parser afterwards, o |-> the index returned].
\* addConstant returns count - 1 as a uint8_t, and constant is a uint8_t
makeConstant(p, value) ==
    The({IF constant > UINT8_COUNT - 1
         THEN [p |-> error(Added(p, value),
                           "Too many constants in one chunk."),
               o |-> 0]
         ELSE [p |-> Added(p, value), o |-> constant]
         : constant \in {Len(p.constants) % UINT8_COUNT}})

emitConstant(p, value) ==
    The({emitBytes(r.p, "OP_CONSTANT", r.o) : r \in {makeConstant(p, value)}})

\* A patchJump that writes the low byte first
patchJumpLowFirst(p, offset) ==
    IF Len(p.code) - offset > UINT16_MAX
    THEN [error(p, "Too much code to jump over.")
            EXCEPT !.code[offset].pairs = <<(Len(p.code) - offset) % 256,
                                            ((Len(p.code) - offset) \div 256) % 256>>]
    ELSE [p EXCEPT !.code[offset].pairs = <<(Len(p.code) - offset) % 256,
                                            ((Len(p.code) - offset) \div 256) % 256>>]

patchJump(p, offset) ==
    IF Len(p.code) - offset > UINT16_MAX
    THEN [error(p, "Too much code to jump over.")
            EXCEPT !.code[offset].pairs = ShortBytes(Len(p.code) - offset)]
    ELSE [p EXCEPT !.code[offset].pairs = ShortBytes(Len(p.code) - offset)]

beginScope(p) == [p EXCEPT !.scopeDepth = @ + 1]

\* The loop of endScope; no local of the model's sources is captured
RECURSIVE PopLocals(_)
PopLocals(p) ==
    IF Len(p.locals) > 0 /\ p.depths[Len(p.locals)] > p.scopeDepth
    THEN The({PopLocals(p1)
              : p1 \in {[emitByte(p, IF p.captured[Len(p.locals)]
                                      THEN Op("OP_CLOSE_UPVALUE")
                                      ELSE Op("OP_POP"))
                           EXCEPT !.locals = SubSeq(@, 1, Len(@) - 1),
                                  !.depths = SubSeq(@, 1, Len(@) - 1),
                                  !.captured = SubSeq(@, 1, Len(@) - 1)]}})
    ELSE p

endScope(p) == PopLocals([p EXCEPT !.scopeDepth = @ - 1])

identifierConstant(p, name) == makeConstant(p, Str(name))

addLocal(p, name) ==
    IF Len(p.locals) = UINT8_COUNT
    THEN error(p, "Too many local variables in function.")
    ELSE [p EXCEPT !.locals = Append(@, name), !.depths = Append(@, -1),
                   !.captured = Append(@, FALSE)]

\* The locals declareVariable compares the name with: those of the
\* current scope
RECURSIVE InScope(_, _)
InScope(p, i) ==
    IF i = 0 THEN {}
    ELSE IF p.depths[i] # -1 /\ p.depths[i] < p.scopeDepth THEN {}
    ELSE {i} \cup InScope(p, i - 1)

declareVariable(p) ==
    IF p.scopeDepth = 0 THEN p
    ELSE IF \E i \in InScope(p, Len(p.locals)) :
              p.locals[i] = p.previous.lexeme
    THEN addLocal(error(p, "Already a variable with this name in this scope."),
                  p.previous.lexeme)
    ELSE addLocal(p, p.previous.lexeme)

\* Precedence, src/include/compiler.h
PREC ==
    [NONE |-> 0, ASSIGNMENT |-> 1, OR |-> 2, AND |-> 3, EQUALITY |-> 4,
     COMPARISON |-> 5, TERM |-> 6, FACTOR |-> 7, UNARY |-> 8, CALL |-> 9,
     PRIMARY |-> 10]

ParseRule(prefix, infix, precedence) ==
    [prefix |-> prefix, infix |-> infix, precedence |-> precedence]

rules ==
    [TOKEN_LEFT_PAREN    |-> ParseRule("grouping", "call", PREC.CALL),
     TOKEN_RIGHT_PAREN   |-> ParseRule("NULL", "NULL", PREC.NONE),
     TOKEN_LEFT_BRACE    |-> ParseRule("NULL", "NULL", PREC.NONE),
     TOKEN_RIGHT_BRACE   |-> ParseRule("NULL", "NULL", PREC.NONE),
     TOKEN_COMMA         |-> ParseRule("NULL", "NULL", PREC.NONE),
     TOKEN_DOT           |-> ParseRule("NULL", "dot", PREC.CALL),
     TOKEN_MINUS         |-> ParseRule("unary", "binary", PREC.TERM),
     TOKEN_PLUS          |-> ParseRule("NULL", "binary", PREC.TERM),
     TOKEN_SEMICOLON     |-> ParseRule("NULL", "NULL", PREC.NONE),
     TOKEN_SLASH         |-> ParseRule("NULL", "binary", PREC.FACTOR),
     TOKEN_STAR          |-> ParseRule("NULL", "binary", PREC.FACTOR),
     TOKEN_BANG          |-> ParseRule("unary", "NULL", PREC.NONE),
     TOKEN_BANG_EQUAL    |-> ParseRule("NULL", "binary", PREC.EQUALITY),
     TOKEN_EQUAL         |-> ParseRule("NULL", "NULL", PREC.NONE),
     TOKEN_EQUAL_EQUAL   |-> ParseRule("NULL", "binary", PREC.EQUALITY),
     TOKEN_GREATER       |-> ParseRule("NULL", "binary", PREC.COMPARISON),
     TOKEN_GREATER_EQUAL |-> ParseRule("NULL", "binary", PREC.COMPARISON),
     TOKEN_LESS          |-> ParseRule("NULL", "binary", PREC.COMPARISON),
     TOKEN_LESS_EQUAL    |-> ParseRule("NULL", "binary", PREC.COMPARISON),
     TOKEN_IDENTIFIER    |-> ParseRule("variable", "NULL", PREC.NONE),
     TOKEN_STRING        |-> ParseRule("string", "NULL", PREC.NONE),
     TOKEN_NUMBER        |-> ParseRule("number", "NULL", PREC.NONE),
     TOKEN_AND           |-> ParseRule("NULL", "and_", PREC.AND),
     TOKEN_CLASS         |-> ParseRule("NULL", "NULL", PREC.NONE),
     TOKEN_ELSE          |-> ParseRule("NULL", "NULL", PREC.NONE),
     TOKEN_FALSE         |-> ParseRule("literal", "NULL", PREC.NONE),
     TOKEN_FOR           |-> ParseRule("NULL", "NULL", PREC.NONE),
     TOKEN_FUN           |-> ParseRule("NULL", "NULL", PREC.NONE),
     TOKEN_IF            |-> ParseRule("NULL", "NULL", PREC.NONE),
     TOKEN_NIL           |-> ParseRule("literal", "NULL", PREC.NONE),
     TOKEN_OR            |-> ParseRule("NULL", "or_", PREC.OR),
     TOKEN_PRINT         |-> ParseRule("NULL", "NULL", PREC.NONE),
     TOKEN_RETURN        |-> ParseRule("NULL", "NULL", PREC.NONE),
     TOKEN_SUPER         |-> ParseRule("NULL", "super_", PREC.NONE),
     TOKEN_THIS          |-> ParseRule("this_", "NULL", PREC.NONE),
     TOKEN_TRUE          |-> ParseRule("literal", "NULL", PREC.NONE),
     TOKEN_VAR           |-> ParseRule("NULL", "NULL", PREC.NONE),
     TOKEN_WHILE         |-> ParseRule("NULL", "NULL", PREC.NONE),
     TOKEN_ERROR         |-> ParseRule("NULL", "NULL", PREC.NONE),
     TOKEN_EOF           |-> ParseRule("NULL", "NULL", PREC.NONE)]

getRule(type) == rules[type]

RECURSIVE parsePrecedence(_, _)

expression(p) == parsePrecedence(p, PREC.ASSIGNMENT)

\* strtod of a lexeme of decimal digits
RECURSIVE strtod(_)
strtod(chars) ==
    IF chars = <<>> THEN 0
    ELSE 10 * strtod(SubSeq(chars, 1, Len(chars) - 1))
           + (chars[Len(chars)] - 48)

number(p) == emitConstant(p, Num(strtod(p.previous.lexeme)))

\* The lexeme of a string token has its two quotes
string(p) ==
    emitConstant(p, Str(SubSeq(p.previous.lexeme, 2,
                               Len(p.previous.lexeme) - 1)))

literal(p) ==
    CASE p.previous.type = "TOKEN_FALSE" -> emitByte(p, Op("OP_FALSE"))
      [] p.previous.type = "TOKEN_NIL" -> emitByte(p, Op("OP_NIL"))
      [] p.previous.type = "TOKEN_TRUE" -> emitByte(p, Op("OP_TRUE"))
      [] OTHER -> p

grouping(p) ==
    The({consume(p1, "TOKEN_RIGHT_PAREN", "Expect ')' after expression.")
         : p1 \in {expression(p)}})

unary(p) ==
    The({CASE p.previous.type = "TOKEN_BANG" -> emitByte(p1, Op("OP_NOT"))
           [] p.previous.type = "TOKEN_MINUS" -> emitByte(p1, Op("OP_NEGATE"))
           [] OTHER -> p1
         : p1 \in {parsePrecedence(p, PREC.UNARY)}})

\* The instructions binary emits for the operator
BinaryOps(operatorType) ==
    CASE operatorType = "TOKEN_BANG_EQUAL" -> <<Op("OP_EQUAL"), Op("OP_NOT")>>
      [] operatorType = "TOKEN_EQUAL_EQUAL" -> <<Op("OP_EQUAL")>>
      [] operatorType = "TOKEN_GREATER" -> <<Op("OP_GREATER")>>
      [] operatorType = "TOKEN_GREATER_EQUAL" -> <<Op("OP_LESS"), Op("OP_NOT")>>
      [] operatorType = "TOKEN_LESS" -> <<Op("OP_LESS")>>
      [] operatorType = "TOKEN_LESS_EQUAL" -> <<Op("OP_GREATER"), Op("OP_NOT")>>
      [] operatorType = "TOKEN_PLUS" -> <<Op("OP_ADD")>>
      [] operatorType = "TOKEN_MINUS" -> <<Op("OP_SUBTRACT")>>
      [] operatorType = "TOKEN_STAR" -> <<Op("OP_MULTIPLY")>>
      [] operatorType = "TOKEN_SLASH" -> <<Op("OP_DIVIDE")>>
      [] OTHER -> <<>>

binary(p) ==
    The({[p1 EXCEPT !.code = @ \o BinaryOps(p.previous.type)]
         : p1 \in {parsePrecedence(p,
                                   getRule(p.previous.type).precedence + 1)}})

\* One turn of the loop of argumentList.  a is [p |-> the parser,
\* o |-> argCount, more |-> the loop goes on]; argCount is a uint8_t
Argument(a) ==
    The({The({IF check(p2, "TOKEN_COMMA")
              THEN [p |-> advance(p2), o |-> (a.o + 1) % UINT8_COUNT,
                    more |-> TRUE]
              ELSE [p |-> p2, o |-> (a.o + 1) % UINT8_COUNT, more |-> FALSE]
              : p2 \in {IF a.o = 255
                        THEN error(p1, "Can't have more than 254 arguments.")
                        ELSE p1}})
         : p1 \in {expression(a.p)}})

\* The loop of argumentList, which takes at most n turns (every turn
\* consumes a token); the turns are halved to keep the nesting low
RECURSIVE Arguments(_, _)
Arguments(a, n) ==
    IF ~a.more \/ n = 0 THEN a
    ELSE IF n = 1 THEN Argument(a)
    ELSE The({Arguments(half, n - n \div 2)
              : half \in {Arguments(a, n \div 2)}})

argumentList(p) ==
    The({[p |-> consume(r.p, "TOKEN_RIGHT_PAREN",
                        "Expect ')' after arguments."),
          o |-> r.o]
         : r \in {IF check(p, "TOKEN_RIGHT_PAREN") THEN [p |-> p, o |-> 0]
                  ELSE Arguments([p |-> p, o |-> 0, more |-> TRUE],
                                 Len(p.source) + 1)}})

\* call of compiler.c (vm.c has a call too)
call_(p) ==
    The({emitBytes(r.p, "OP_CALL", r.o) : r \in {argumentList(p)}})

\* An instruction with two operands, as OP_INVOKE: name and argCount
Op2(op, a, b) == [op |-> op, a |-> a, pairs |-> <<b>>]

dot(p, canAssign) ==
    The({The({
        IF canAssign /\ check(name.p, "TOKEN_EQUAL")
        THEN The({emitBytes(p3, "OP_SET_PROPERTY", name.o)
                  : p3 \in {The({expression(p2)
                                 : p2 \in {advance(name.p)}})}})
        ELSE IF check(name.p, "TOKEN_LEFT_PAREN")
        THEN The({emitByte(r.p, Op2("OP_INVOKE", name.o, r.o))
                  : r \in {The({argumentList(p2)
                                : p2 \in {advance(name.p)}})}})
        ELSE emitBytes(name.p, "OP_GET_PROPERTY", name.o)
        : name \in {identifierConstant(p1, p1.previous.lexeme)}})
        : p1 \in {consume(p, "TOKEN_IDENTIFIER",
                          "Expect property name after '.'.")}})

and_(p) ==
    The({The({patchJump(p2, Len(p1.code))
              : p2 \in {parsePrecedence(emitByte(p1, Op("OP_POP")),
                                        PREC.AND)}})
         : p1 \in {emitJump(p, "OP_JUMP_IF_FALSE")}})

or_(p) ==
    The({The({The({patchJump(p3, Len(p1.code) + 1)
                   : p3 \in {parsePrecedence(p2, PREC.OR)}})
              : p2 \in {emitByte(patchJump(emitJump(p1, "OP_JUMP"),
                                           Len(p1.code)),
                                 Op("OP_POP"))}})
         : p1 \in {emitJump(p, "OP_JUMP_IF_FALSE")}})

\* namedVariable in the script's compiler: the opcodes are chosen as
\* namedVariable chooses them, identifierConstant is called for a global
\* only; then the assignment or the access is emitted
OwnInitializer == "Can't read local variable in its own initializer."

\* The compilers from the script's to the current one, as resolveUpvalue
\* walks them
Compilers(p) ==
    [k \in 1 .. Len(p.enclosing) + 1 |->
        IF k <= Len(p.enclosing)
        THEN [locals |-> p.enclosing[k].locals,
              upvalues |-> p.enclosing[k].upvalues]
        ELSE [locals |-> p.locals, upvalues |-> p.upvalues]]

\* The enclosing compilers in which resolveUpvalue's resolveLocal finds
\* the name: resolveUpvalue asks the compiler it was called for, not the
\* one around it, and never the script's
FoundAt(p, name) ==
    {k \in 2 .. Len(p.enclosing) :
       resolveLocal([locals |-> p.enclosing[k].locals], name) # -1}

\* What resolveUpvalue writes besides the upvalues, cs are the compilers
\* afterwards: the error of resolveLocal, and isCaptured of the slot of
\* that number in the compiler one further out
Captures(p, cs, name) ==
    The({The({
        [(IF p.enclosing[k].depths[slot] = -1
          THEN error(p, OwnInitializer)
          ELSE p)
           EXCEPT !.upvalues = cs[Len(cs)].upvalues,
                  !.enclosing =
                     [e \in 1 .. Len(p.enclosing) |->
                         [p.enclosing[e] EXCEPT
                            !.upvalues = cs[e].upvalues,
                            !.captured =
                               [l \in 1 .. Len(p.enclosing[e].locals) |->
                                   IF e = k - 1 /\ l = slot THEN TRUE
                                   ELSE p.enclosing[e].captured[l]]]]]
        : slot \in {resolveLocal([locals |-> p.enclosing[k].locals],
                                 name) + 1}})
        : k \in {CHOOSE k \in FoundAt(p, name) :
                    \A f \in FoundAt(p, name) : f <= k}})

\* namedVariable up to the opcodes and the operand it chooses: [p, getOp,
\* setOp, arg]
Resolved(p, name) ==
    The({CASE chosen.getOp = "OP_GET_LOCAL" ->
                [p |-> IF p.depths[chosen.arg + 1] = -1
                       THEN error(p, OwnInitializer)
                       ELSE p,
                 getOp |-> chosen.getOp, setOp |-> chosen.setOp,
                 arg |-> chosen.arg]
           [] chosen.getOp = "OP_GET_UPVALUE" ->
                [p |-> Captures(p, chosen.cs, name),
                 getOp |-> chosen.getOp, setOp |-> chosen.setOp,
                 arg |-> chosen.arg]
           [] OTHER ->
                The({[p |-> constant.p, getOp |-> chosen.getOp,
                      setOp |-> chosen.setOp, arg |-> constant.o]
                     : constant \in {identifierConstant(p, name)}})
         : chosen \in {namedVariable(Compilers(p), name, 0)}})

EmitVariable(p, canAssign, name) ==
    The({IF canAssign /\ check(r.p, "TOKEN_EQUAL")
         THEN The({emitBytes(p2, r.setOp, r.arg)
                   : p2 \in {The({expression(p1)
                                  : p1 \in {advance(r.p)}})}})
         ELSE emitBytes(r.p, r.getOp, r.arg)
         : r \in {Resolved(p, name)}})

\* A variable that takes the '=' after it whatever canAssign is
variableTakesEqual(p, canAssign) == EmitVariable(p, TRUE, p.previous.lexeme)

variable(p, canAssign) == EmitVariable(p, canAssign, p.previous.lexeme)

super_(p) ==
    The({The({
        IF check(name.p, "TOKEN_LEFT_PAREN")
        THEN The({The({emitByte(p5, Op2("OP_SUPER_INVOKE", name.o, r.o))
                       : p5 \in {EmitVariable(r.p, FALSE, super)}})
                  : r \in {The({argumentList(p4)
                                : p4 \in {The({advance(p3)
                                    : p3 \in {EmitVariable(name.p, FALSE,
                                                           this)}})}})}})
        ELSE The({emitBytes(p4, "OP_GET_SUPER", name.o)
                  : p4 \in {The({EmitVariable(p3, FALSE, super)
                                 : p3 \in {EmitVariable(name.p, FALSE,
                                                        this)}})}})
        : name \in {identifierConstant(p2, p2.previous.lexeme)}})
        : p2 \in {The({consume(p1, "TOKEN_IDENTIFIER",
                               "Expect superclass method name.")
                       : p1 \in {consume(
                            IF p.currentClass = <<>>
                            THEN error(p, "Can't use 'super' outside of a class.")
                            ELSE IF ~p.currentClass[Len(p.currentClass)].hasSuperclass
                            THEN error(p, "Can't use 'super in a class with no superclass.")
                            ELSE p,
                            "TOKEN_DOT", "Expect '.' after 'super'.")}})}})

this_(p) ==
    IF p.currentClass = <<>>
    THEN error(p, "Can't use 'this' outside of a class.")
    ELSE variable(p, FALSE)

\* The prefix or infix function fn of a rule is called
ParseFn(fn, p, canAssign) ==
    CASE fn = "grouping" -> grouping(p)
      [] fn = "call" -> call_(p)
      [] fn = "dot" -> dot(p, canAssign)
      [] fn = "unary" -> unary(p)
      [] fn = "binary" -> binary(p)
      [] fn = "variable" -> variable(p, canAssign)
      [] fn = "string" -> string(p)
      [] fn = "number" -> number(p)
      [] fn = "and_" -> and_(p)
      [] fn = "or_" -> or_(p)
      [] fn = "literal" -> literal(p)
      [] fn = "super_" -> super_(p)
      [] fn = "this_" -> this_(p)

\* The while loop of parsePrecedence
RECURSIVE Infixes(_, _, _)
Infixes(p, precedence, canAssign) ==
    IF precedence <= getRule(p.current.type).precedence
    THEN The({The({Infixes(p2, precedence, canAssign)
                   : p2 \in {ParseFn(getRule(p1.previous.type).infix, p1,
                                     canAssign)}})
              : p1 \in {advance(p)}})
    ELSE p

parsePrecedence(p, precedence) ==
    The({IF getRule(p1.previous.type).prefix = "NULL"
         THEN error(p1, "Expect expression.")
         ELSE The({IF precedence <= PREC.ASSIGNMENT /\ check(p3, "TOKEN_EQUAL")
                   THEN The({error(p4, "Invalid assignment target.")
                             : p4 \in {advance(p3)}})
                   ELSE p3
                   : p3 \in {The({Infixes(p2, precedence,
                                          precedence <= PREC.ASSIGNMENT)
                                  : p2 \in {ParseFn(
                                       getRule(p1.previous.type).prefix, p1,
                                       precedence <= PREC.ASSIGNMENT)}})}})
         : p1 \in {advance(p)}})

\* parseVariable: [p |-> the parser afterwards, o |-> the constant returned]
parseVariable(p, errorMsg) ==
    The({IF p2.scopeDepth > 0 THEN [p |-> p2, o |-> 0]
         ELSE identifierConstant(p2, p2.previous.lexeme)
         : p2 \in {The({declareVariable(p1)
                        : p1 \in {consume(p, "TOKEN_IDENTIFIER", errorMsg)}})}})

markInitialized(p) ==
    IF p.scopeDepth = 0 THEN p
    ELSE [p EXCEPT !.depths[Len(p.locals)] = p.scopeDepth]

defineVariable(p, global) ==
    IF p.scopeDepth > 0 THEN markInitialized(p)
    ELSE emitBytes(p, "OP_DEFINE_GLOBAL", global)

varDeclaration(p) ==
    The({The({defineVariable(p2, global.o)
              : p2 \in {The({consume(p1, "TOKEN_SEMICOLON",
                                "Expect ';' after variable declaration.")
                             : p1 \in {IF check(global.p, "TOKEN_EQUAL")
                                       THEN The({expression(p0)
                                                 : p0 \in {advance(global.p)}})
                                       ELSE emitByte(global.p, Op("OP_NIL"))}})}})
         : global \in {parseVariable(p, "Expect variable name.")}})

expressionStatement(p) ==
    The({emitByte(p2, Op("OP_POP"))
         : p2 \in {The({consume(p1, "TOKEN_SEMICOLON",
                                "Expect ';' after expression.")
                        : p1 \in {expression(p)}})}})

printStatement(p) ==
    The({emitByte(p2, Op("OP_PRINT"))
         : p2 \in {The({consume(p1, "TOKEN_SEMICOLON",
                                "Expect ';' after value.")
                        : p1 \in {expression(p)}})}})

returnStatement(p) ==
    The({IF check(p1, "TOKEN_SEMICOLON")
         THEN The({emitReturn(p2) : p2 \in {advance(p1)}})
         ELSE The({emitByte(p4, Op("OP_RETURN"))
                   : p4 \in {The({consume(p3, "TOKEN_SEMICOLON",
                                          "Expect ';' after return value.")
                                  : p3 \in {The({expression(p2)
                       : p2 \in {IF p1.ftype = "TYPE_INITIALIZER"
                                 THEN error(p1, "Can't return a value from an initializer.")
                                 ELSE p1}})}})}})
         : p1 \in {IF p.ftype = "TYPE_SCRIPT"
                   THEN error(p, "Can't return from top-level code.")
                   ELSE p}})

RECURSIVE declaration(_)

\* The loop of block
RECURSIVE Declarations(_)
Declarations(p) ==
    IF \/ p.pc = "hung"
       \/ check(p, "TOKEN_RIGHT_BRACE")
       \/ check(p, "TOKEN_EOF")
    THEN p
    ELSE The({Declarations(p1) : p1 \in {declaration(p)}})

block(p) ==
    The({consume(p1, "TOKEN_RIGHT_BRACE", "Expect '}' after block.")
         : p1 \in {Declarations(p)}})

RECURSIVE statement(_)

\* An ifStatement that emits no OP_POP where the else branch starts
ifStatementKeeps(p) ==
    The({The({The({The({patchJump(p7, Len(p4.code))
        : p7 \in {IF check(p6, "TOKEN_ELSE")
                  THEN The({statement(p8) : p8 \in {advance(p6)}})
                  ELSE p6}})
        : p6 \in {patchJump(p4, Len(p3.code))}})
        : p4 \in {The({emitJump(p5, "OP_JUMP")
                       : p5 \in {statement(emitByte(p3, Op("OP_POP")))}})}})
        : p3 \in {The({emitJump(p2, "OP_JUMP_IF_FALSE")
            : p2 \in {The({consume(p1, "TOKEN_RIGHT_PAREN",
                                   "Expect ')' after 'if'.")
                : p1 \in {The({expression(p0)
                    : p0 \in {consume(p, "TOKEN_LEFT_PAREN",
                                      "Expect '(' after 'if'.")}})}})}})}})

ifStatement(p) ==
    The({The({The({The({patchJump(p7, Len(p4.code))
        : p7 \in {IF check(p6, "TOKEN_ELSE")
                  THEN The({statement(p8) : p8 \in {advance(p6)}})
                  ELSE p6}})
        : p6 \in {emitByte(patchJump(p4, Len(p3.code)), Op("OP_POP"))}})
        : p4 \in {The({emitJump(p5, "OP_JUMP")
                       : p5 \in {statement(emitByte(p3, Op("OP_POP")))}})}})
        : p3 \in {The({emitJump(p2, "OP_JUMP_IF_FALSE")
            : p2 \in {The({consume(p1, "TOKEN_RIGHT_PAREN",
                                   "Expect ')' after 'if'.")
                : p1 \in {The({expression(p0)
                    : p0 \in {consume(p, "TOKEN_LEFT_PAREN",
                                      "Expect '(' after 'if'.")}})}})}})}})

whileStatement(p) ==
    The({The({emitByte(patchJump(p5, Len(p3.code)), Op("OP_POP"))
        : p5 \in {The({emitLoop(p4, Len(p.code) + 1)
                       : p4 \in {statement(emitByte(p3, Op("OP_POP")))}})}})
        : p3 \in {The({emitJump(p2, "OP_JUMP_IF_FALSE")
            : p2 \in {The({consume(p1, "TOKEN_RIGHT_PAREN",
                                   "Expect ')' after 'while' condition.")
                : p1 \in {The({expression(p0)
                    : p0 \in {consume(p, "TOKEN_LEFT_PAREN",
                                      "Expect '(' after 'while'.")}})}})}})}})

\* forStatement after the initializer clause.  f is [p, loopStart,
\* exitJmp]: the parser, where the loop goes back to and the position of
\* the exit jump, -1 when there is no condition clause
ForCondition(p) ==
    IF check(p, "TOKEN_SEMICOLON")
    THEN [p |-> advance(p), loopStart |-> Len(p.code) + 1, exitJmp |-> -1]
    ELSE The({[p |-> emitByte(p3, Op("OP_POP")),
               loopStart |-> Len(p.code) + 1, exitJmp |-> Len(p3.code)]
              : p3 \in {The({emitJump(p2, "OP_JUMP_IF_FALSE")
                  : p2 \in {The({consume(p1, "TOKEN_SEMICOLON",
                                   "Expect ';' after loop condition.")
                                 : p1 \in {expression(p)}})}})}})

ForIncrement(f) ==
    IF check(f.p, "TOKEN_RIGHT_PAREN")
    THEN [f EXCEPT !.p = advance(f.p)]
    ELSE The({The({
        [f EXCEPT !.p = patchJump(p5, Len(p1.code)),
                  !.loopStart = Len(p1.code) + 1]
        : p5 \in {The({emitLoop(p4, f.loopStart)
            : p4 \in {The({consume(p3, "TOKEN_RIGHT_PAREN",
                                   "Expect ')'  after for clauses.")
                : p3 \in {The({emitByte(p2, Op("OP_POP"))
                               : p2 \in {expression(p1)}})}})}})}})
        : p1 \in {emitJump(f.p, "OP_JUMP")}})

ForBody(f) ==
    The({endScope(IF f.exitJmp # -1 THEN patchJump(p2, f.exitJmp) ELSE p2)
         : p2 \in {The({emitLoop(p1, f.loopStart)
                        : p1 \in {statement(f.p)}})}})

forStatement(p) ==
    The({The({The({ForBody(f2)
        : f2 \in {ForIncrement(f1)}})
        : f1 \in {The({ForCondition(p2)
            : p2 \in {IF check(p1, "TOKEN_SEMICOLON") THEN advance(p1)
                      ELSE IF check(p1, "TOKEN_VAR")
                      THEN The({varDeclaration(p0) : p0 \in {advance(p1)}})
                      ELSE expressionStatement(p1)}})}})
        : p1 \in {consume(beginScope(p), "TOKEN_LEFT_PAREN",
                          "Expect '('  after 'for'.")}})

statement(p) ==
    CASE check(p, "TOKEN_PRINT") ->
           The({printStatement(p1) : p1 \in {advance(p)}})
      [] check(p, "TOKEN_FOR") ->
           The({forStatement(p1) : p1 \in {advance(p)}})
      [] check(p, "TOKEN_IF") ->
           The({ifStatement(p1) : p1 \in {advance(p)}})
      [] check(p, "TOKEN_RETURN") ->
           The({returnStatement(p1) : p1 \in {advance(p)}})
      [] check(p, "TOKEN_WHILE") ->
           The({whileStatement(p1) : p1 \in {advance(p)}})
      [] check(p, "TOKEN_LEFT_BRACE") ->
           The({endScope(p2)
                : p2 \in {The({block(p1)
                               : p1 \in {beginScope(advance(p))}})}})
      [] OTHER -> expressionStatement(p)

\* initCompiler for a function: the Compiler that was compiling is the
\* enclosing one, the name of the function is the previous token
initCompiler(p, ftype) ==
    [p EXCEPT !.enclosing =
                 Append(@, [code |-> p.code, constants |-> p.constants,
                            locals |-> p.locals, depths |-> p.depths,
                            captured |-> p.captured,
                            scopeDepth |-> p.scopeDepth, ftype |-> p.ftype,
                            arity |-> p.arity, name |-> p.name,
                            upvalues |-> p.upvalues]),
              !.code = <<>>, !.constants = <<>>,
              !.locals = <<IF ftype # "TYPE_FUNCTION" THEN this ELSE <<>>>>,
              !.depths = <<0>>, !.captured = <<FALSE>>, !.scopeDepth = 0,
              !.ftype = ftype, !.arity = 0, !.name = p.previous.lexeme,
              !.upvalues = <<>>]

\* The do-while loop of function: arity is a uint8_t
RECURSIVE Parameters(_)
Parameters(p) ==
    The({IF check(p3, "TOKEN_COMMA")
         THEN The({Parameters(p4) : p4 \in {advance(p3)}})
         ELSE p3
         : p3 \in {The({defineVariable(constant.p, constant.o)
             : constant \in {The({parseVariable(p2, "Expect parameter name.")
                 : p2 \in {The({IF ~(p1.arity < UINT8_COUNT - 1)
                                THEN errorAtCurrent(p1,
                                       "Can't have more than 254 parameters.")
                                ELSE p1
                     : p1 \in {[p EXCEPT !.arity =
                                            (@ + 1) % UINT8_COUNT]}})}})}})}})

\* function from endCompiler on: the function is finished, the enclosing
\* Compiler compiles again and OP_CLOSURE is emitted into it, with
\* func->upvalueCount pairs read from the upvalues array of the enclosing
\* Compiler; an entry of it that was never written is read uninitialized
EndFunction(p) ==
    The({The({The({The({
        emitByte([constant.p EXCEPT
                    !.ub = @ \/ func.upvalueCount > Len(outer.upvalues)],
                 Closure(constant.o,
                         EmittedPairs([upvalues |-> outer.upvalues],
                                      func.upvalueCount,
                                      [isLocal |-> FALSE, index |-> 0])))
        : constant \in {makeConstant(
               [p1 EXCEPT !.code = outer.code,
                          !.constants = outer.constants,
                          !.locals = outer.locals, !.depths = outer.depths,
                          !.captured = outer.captured,
                          !.scopeDepth = outer.scopeDepth,
                          !.ftype = outer.ftype, !.arity = outer.arity,
                          !.name = outer.name, !.upvalues = outer.upvalues,
                          !.enclosing = SubSeq(@, 1, Len(@) - 1),
                          !.functions = Append(@, func)],
               Fun(Len(p1.functions) + 2))}})
        : outer \in {p1.enclosing[Len(p1.enclosing)]}})
        : func \in {Proto(p1.name, p1.arity, Len(p1.upvalues), p1.code,
                          p1.constants)}})
        : p1 \in {emitReturn(p)}})

function(p, ftype) ==
    The({EndFunction(p5)
         : p5 \in {The({block(p4)
             : p4 \in {The({consume(p3, "TOKEN_LEFT_BRACE",
                                    "Expect '{' before function body.")
                 : p3 \in {The({consume(p2, "TOKEN_RIGHT_PAREN",
                                        "Expect ')' after parameters.")
                     : p2 \in {The({IF ~check(p1, "TOKEN_RIGHT_PAREN")
                                    THEN Parameters(p1) ELSE p1
                         : p1 \in {consume(
                              beginScope(initCompiler(p, ftype)),
                              "TOKEN_LEFT_PAREN",
                              "Expect '(' after function name.")}})}})}})}})}})

method(p) ==
    The({The({The({emitBytes(p2, "OP_METHOD", constant.o)
        : p2 \in {function(constant.p,
                           IF p1.previous.lexeme = init
                           THEN "TYPE_INITIALIZER" ELSE "TYPE_METHOD")}})
        : constant \in {identifierConstant(p1, p1.previous.lexeme)}})
        : p1 \in {consume(p, "TOKEN_IDENTIFIER", "Expect method name.")}})

\* The loop of classDeclaration
RECURSIVE Methods(_)
Methods(p) ==
    IF \/ p.pc = "hung"
       \/ check(p, "TOKEN_RIGHT_BRACE")
       \/ check(p, "TOKEN_EOF")
    THEN p
    ELSE The({Methods(p1) : p1 \in {method(p)}})

\* classDeclaration after '<'
Superclass(p, className) ==
    The({The({The({The({
        [emitByte(p5, Op("OP_INHERIT"))
           EXCEPT !.currentClass[Len(p.currentClass)].hasSuperclass = TRUE]
        : p5 \in {EmitVariable(p4, FALSE, className)}})
        : p4 \in {The({defineVariable(p3, 0)
                       : p3 \in {addLocal(
                            beginScope(
                              IF className = p2.previous.lexeme
                              THEN error(p2, "Class cannot inherit from itself.")
                              ELSE p2),
                            super)}})}})
        : p2 \in {variable(p1, FALSE)}})
        : p1 \in {consume(p, "TOKEN_IDENTIFIER",
                          "Expect superclass name.")}})

\* classDeclaration.  Its pop(vm) works on the stack of the VM while the
\* source is compiled: compile, above, does it for every OP_CLASS of the
\* unit.  No instruction is emitted after the class body
classDeclaration(p) ==
    The({The({The({The({The({The({
        [(IF p7.currentClass[Len(p7.currentClass)].hasSuperclass
          THEN endScope(p7) ELSE p7)
           EXCEPT !.currentClass = SubSeq(@, 1, Len(@) - 1)]
        : p7 \in {The({consume(p6, "TOKEN_RIGHT_BRACE",
                               "Expect '}' after class body.")
            : p6 \in {The({Methods(p5)
                : p5 \in {The({consume(p4, "TOKEN_LEFT_BRACE",
                                       "Expect '{' before class body.")
                    : p4 \in {EmitVariable(p3, FALSE,
                                           p1.previous.lexeme)}})}})}})}})
        : p3 \in {IF check(p2, "TOKEN_LESS")
                  THEN The({Superclass(p25, p1.previous.lexeme)
                            : p25 \in {advance(p2)}})
                  ELSE p2}})
        : p2 \in {[defineVariable(p15, nameConstant.o)
                     EXCEPT !.currentClass =
                               Append(@, [hasSuperclass |-> FALSE])]}})
        : p15 \in {emitBytes(declareVariable(nameConstant.p), "OP_CLASS",
                             nameConstant.o)}})
        : nameConstant \in {identifierConstant(p1, p1.previous.lexeme)}})
        : p1 \in {consume(p, "TOKEN_IDENTIFIER", "Expect class name.")}})

funDeclaration(p) ==
    The({The({defineVariable(p1, global.o)
              : p1 \in {function(markInitialized(global.p),
                                 "TYPE_FUNCTION")}})
         : global \in {parseVariable(p, "Expect function name.")}})

\* declaration up to its test of panicMode
Declared(p) ==
    CASE check(p, "TOKEN_CLASS") ->
           The({classDeclaration(p1) : p1 \in {advance(p)}})
      [] check(p, "TOKEN_FUN") ->
           The({funDeclaration(p1) : p1 \in {advance(p)}})
      [] check(p, "TOKEN_VAR") ->
           The({varDeclaration(p1) : p1 \in {advance(p)}})
      [] OTHER -> statement(p)

\* The keywords the switch of synchronize returns at
Boundaries ==
    {"TOKEN_CLASS", "TOKEN_FUN", "TOKEN_VAR", "TOKEN_FOR", "TOKEN_IF",
     "TOKEN_WHILE", "TOKEN_PRINT", "TOKEN_RETURN"}

\* synchronize, called by a declaration inside a block or a class body.
\* Its loop scans no token: when it does not return at once it never
\* does (pc = "hung")
Synchronized(p) ==
    IF p.current.type = "TOKEN_EOF"
    THEN advance([p EXCEPT !.panicMode = FALSE])
    ELSE IF \/ p.previous.type = "TOKEN_SEMICOLON"
            \/ p.current.type \in Boundaries
    THEN [p EXCEPT !.panicMode = FALSE]
    ELSE [p EXCEPT !.panicMode = FALSE, !.pc = "hung"]

\* declaration inside a block or a class body
declaration(p) ==
    The({IF p1.panicMode THEN Synchronized(p1) ELSE p1
         : p1 \in {Declared(p)}})

\* compile() up to its loop: initCompiler of the script (slot 0 is named
\* "this", since ftype is not TYPE_FUNCTION) and the first advance
Compiling(source) ==
    advance([NoParser EXCEPT !.pc = "compile", !.text = source,
                             !.source = source,
                             !.locals = <<this>>, !.depths = <<0>>,
                             !.captured = <<FALSE>>, !.starts = {1}])

\* The unit compile() has made when it returns
Compiled(p) == <<Proto(<<>>, 0, 0, p.code, p.constants)>> \o p.functions

-----------------------------------------------------------------------------
(* The state machine.  interpret() is one action up to the entry of run(); *)
(* then every case of the dispatch loop is an action of its own.           *)

clock == <<99, 108, 111, 99, 107>>

\* initVM on a zeroed VM
initVM(gc) ==
    defineNative(
        [heap |-> [a \in Addresses |-> FreeCell], objects |-> <<>>,
         stack |-> <<>>, frames |-> <<>>, openUpvalues |-> <<>>,
         globals |-> initTable, strings |-> initTable,
         errors |-> <<>>, output |-> <<>>, ub |-> FALSE, buffers |-> 0,
         collected |-> FALSE, lost |-> FALSE, pinned |-> {}, ret |-> ""],
        gc, clock, "clockNative", 0)

\* initVM: bytesAllocated = 0, nextGC = 1024 * 1024, no grey stack.  blocks
\* are the allocations that are followed (size and mark), newest first;
\* activations counts the calls of collectGarbage that have not returned,
\* pc is where the collector is, object the sweep's position in blocks,
\* pending the size reallocate will hand out once the collection it has
\* triggered returns, and forced whether that call was made in a build
\* with DEBUG_STRESS_GC.
initCollector ==
    [bytesAllocated |-> 0, nextGC |-> 1024 * 1024,
     greyCount |-> 0, greyCapacity |-> 0,
     blocks |-> <<>>, activations |-> 0, pc |-> "idle", object |-> 0,
     pending |-> 0, forced |-> FALSE]

\* The variables take the fields of v; run() has returned iff v.ret # ""
Becomes(v) ==
    /\ heap' = v.heap
    /\ objects' = v.objects
    /\ stack' = v.stack
    /\ frames' = v.frames
    /\ openUpvalues' = v.openUpvalues
    /\ globals' = v.globals
    /\ strings' = v.strings
    /\ errors' = v.errors
    /\ output' = v.output
    /\ ub' = v.ub
    /\ buffers' = v.buffers
    /\ collected' = v.collected
    /\ lost' = v.lost
    /\ running' = (v.ret = "" /\ ~v.ub)
    /\ result' = v.ret
    /\ UNCHANGED collector

Init ==
    /\ \E gc \in BOOLEAN : \E v \in {initVM(gc)} :
         /\ heap = v.heap
         /\ objects = v.objects
         /\ stack = v.stack
         /\ frames = v.frames
         /\ openUpvalues = v.openUpvalues
         /\ globals = v.globals
         /\ strings = v.strings
         /\ errors = v.errors
         /\ output = v.output
         /\ ub = v.ub
         /\ buffers = v.buffers
         /\ collected = v.collected
         /\ lost = v.lost
    /\ running = FALSE
    /\ result = ""
    /\ program = <<>>
    /\ runs = 0
    /\ lastOp = "none"
    /\ parser = NoParser
    /\ collector = initCollector

\* run() is entered for a unit of the set Programs: through interpret(),
\* or (compiled = FALSE) with the unit's chunk on a VM that compile() has
\* not touched
Enter(Programs, compiled) ==
    /\ ~running /\ ~ub /\ runs < MaxRuns
    /\ \E unit \in Programs, gc \in BOOLEAN :
         \E v \in {[VM EXCEPT !.errors = <<>>, !.output = <<>>]} :
           /\ Room(heap, ObjectsOfUnit(unit, 1))
           /\ \E func \in {IF compiled THEN compile(v, unit, gc)
                             ELSE LoadFunction(v, unit, 1, NoCompiler, gc)} :
                 Becomes(EnterRun(func, gc))
           /\ program' = unit
    /\ runs' = runs + 1
    /\ lastOp' = "none"
    /\ UNCHANGED parser

\* interpret(vm, scanner, source) for a source of the set Programs
Interpret(Programs) == Enter(Programs, TRUE)

\* run(vm, NULL) on the chunk of a source of the set Programs
RunChunk(Programs) == Enter(Programs, FALSE)

\* The maximum number of objects one case of the dispatch loop allocates
StepObjects == 3

\* The instruction run() reads next
Instruction ==
    heap[heap[frames[Len(frames)].closure].func].code[frames[Len(frames)].ip]

\* The number of messages runtimeError writes in one run of the model
MaxErrors == 2

\* The switch of run() takes the case op
Dispatch(op) ==
    /\ running /\ ~ub
    /\ Room(heap, StepObjects)
    /\ Len(errors) < MaxErrors
    /\ Instruction.op = op
    /\ lastOp' = op
    /\ UNCHANGED <<program, runs, parser>>

\* READ_BYTE(): the VM with the instruction pointer past the instruction
Fetched == [VM EXCEPT !.frames[Len(frames)].ip = @ + 1]

\* The numbers clock() returns
ClockTicks == 1

Run_OP_CONSTANT ==
    Dispatch("OP_CONSTANT") /\ Becomes(OP_CONSTANT(Fetched, Instruction.a))

Run_OP_NIL == Dispatch("OP_NIL") /\ Becomes(OP_NIL(Fetched))

Run_OP_TRUE == Dispatch("OP_TRUE") /\ Becomes(OP_TRUE(Fetched))

Run_OP_FALSE == Dispatch("OP_FALSE") /\ Becomes(OP_FALSE(Fetched))

Run_OP_POP == Dispatch("OP_POP") /\ Becomes(OP_POP(Fetched))

Run_OP_GET_LOCAL ==
    Dispatch("OP_GET_LOCAL") /\ Becomes(OP_GET_LOCAL(Fetched, Instruction.a))

Run_OP_GET_GLOBAL ==
    Dispatch("OP_GET_GLOBAL") /\ Becomes(OP_GET_GLOBAL(Fetched, Instruction.a))

Run_OP_DEFINE_GLOBAL ==
    /\ Dispatch("OP_DEFINE_GLOBAL")
    /\ \E gc \in BOOLEAN : Becomes(OP_DEFINE_GLOBAL(Fetched, Instruction.a, gc))

Run_OP_SET_LOCAL ==
    Dispatch("OP_SET_LOCAL") /\ Becomes(OP_SET_LOCAL(Fetched, Instruction.a))

Run_OP_SET_GLOBAL ==
    /\ Dispatch("OP_SET_GLOBAL")
    /\ \E gc \in BOOLEAN : Becomes(OP_SET_GLOBAL(Fetched, Instruction.a, gc))

Run_OP_GET_UPVALUE ==
    Dispatch("OP_GET_UPVALUE") /\ Becomes(OP_GET_UPVALUE(Fetched, Instruction.a))

Run_OP_SET_UPVALUE ==
    Dispatch("OP_SET_UPVALUE") /\ Becomes(OP_SET_UPVALUE(Fetched, Instruction.a))

Run_OP_GET_PROPERTY ==
    /\ Dispatch("OP_GET_PROPERTY")
    /\ \E gc \in BOOLEAN : Becomes(OP_GET_PROPERTY(Fetched, Instruction.a, gc))

Run_OP_SET_PROPERTY ==
    /\ Dispatch("OP_SET_PROPERTY")
    /\ \E gc \in BOOLEAN : Becomes(OP_SET_PROPERTY(Fetched, Instruction.a, gc))

Run_OP_EQUAL == Dispatch("OP_EQUAL") /\ Becomes(OP_EQUAL(Fetched))

Run_OP_GREATER == Dispatch("OP_GREATER") /\ Becomes(OP_GREATER(Fetched))

Run_OP_LESS == Dispatch("OP_LESS") /\ Becomes(OP_LESS(Fetched))

Run_OP_ADD ==
    /\ Dispatch("OP_ADD")
    /\ \E gc \in BOOLEAN : Becomes(OP_ADD(Fetched, gc))

Run_OP_SUBTRACT == Dispatch("OP_SUBTRACT") /\ Becomes(OP_SUBTRACT(Fetched))

Run_OP_MULTIPLY == Dispatch("OP_MULTIPLY") /\ Becomes(OP_MULTIPLY(Fetched))

\* The numbers of the model are the integers: the quotient must be one
Run_OP_DIVIDE ==
    /\ Dispatch("OP_DIVIDE")
    /\ IS_NUMBER(peek(VM, 0)) /\ IS_NUMBER(peek(VM, 1))
         => peek(VM, 0).as # 0 /\ peek(VM, 1).as % peek(VM, 0).as = 0
    /\ Becomes(OP_DIVIDE(Fetched))

Run_OP_NOT == Dispatch("OP_NOT") /\ Becomes(OP_NOT(Fetched))

Run_OP_NEGATE == Dispatch("OP_NEGATE") /\ Becomes(OP_NEGATE(Fetched))

Run_OP_PRINT == Dispatch("OP_PRINT") /\ Becomes(OP_PRINT(Fetched))

\* READ_SHORT(): the two operand bytes as a uint16_t, high byte first
READ_SHORT(instruction) ==
    (instruction.pairs[1] * 256 + instruction.pairs[2]) % 65536

Run_OP_JUMP == Dispatch("OP_JUMP") /\ Becomes(OP_JUMP(Fetched, READ_SHORT(Instruction)))

Run_OP_JUMP_IF_FALSE ==
    /\ Dispatch("OP_JUMP_IF_FALSE")
    /\ Becomes(OP_JUMP_IF_FALSE(Fetched, READ_SHORT(Instruction)))

Run_OP_LOOP == Dispatch("OP_LOOP") /\ Becomes(OP_LOOP(Fetched, READ_SHORT(Instruction)))

Run_OP_CALL ==
    /\ Dispatch("OP_CALL")
    /\ \E gc \in BOOLEAN, t \in 0 .. ClockTicks :
         Becomes(OP_CALL(Fetched, Instruction.a, gc, t))

Run_OP_CLOSURE ==
    /\ Dispatch("OP_CLOSURE")
    /\ \E gc \in BOOLEAN :
         Becomes(OP_CLOSURE(Fetched, Instruction.a, Instruction.pairs, gc))

Run_OP_CLOSE_UPVALUE ==
    Dispatch("OP_CLOSE_UPVALUE") /\ Becomes(OP_CLOSE_UPVALUE(Fetched))

Run_OP_RETURN == Dispatch("OP_RETURN") /\ Becomes(OP_RETURN(Fetched))

Run_OP_CLASS ==
    /\ Dispatch("OP_CLASS")
    /\ \E gc \in BOOLEAN, mem \in {initTable, GarbageTable} :
         Becomes(OP_CLASS(Fetched, Instruction.a, gc, mem))

Run_OP_METHOD ==
    /\ Dispatch("OP_METHOD")
    /\ \E gc \in BOOLEAN : Becomes(OP_METHOD(Fetched, Instruction.a, gc))

-----------------------------------------------------------------------------
(* String concatenation.                                                   *)

hi == <<104, 105>>

bang == <<33>>

ab == <<97, 98>>

Strs == {hi, bang, ab}

\* print "a" + "b";
PrintConcat(a, b) ==
    <<Proto(<<>>, 0, 0,
            <<Op1("OP_CONSTANT", 0), Op1("OP_CONSTANT", 1), Op("OP_ADD"),
              Op("OP_PRINT"), Op("OP_NIL"), Op("OP_RETURN")>>,
            <<Str(a), Str(b)>>)>>

\* var a = "a"; var b = "b"; print a + b;
PrintConcatVars(a, b) ==
    <<Proto(<<>>, 0, 0,
            <<Op1("OP_CONSTANT", 1), Op1("OP_DEFINE_GLOBAL", 0),
              Op1("OP_CONSTANT", 3), Op1("OP_DEFINE_GLOBAL", 2),
              Op1("OP_GET_GLOBAL", 4), Op1("OP_GET_GLOBAL", 5), Op("OP_ADD"),
              Op("OP_PRINT"), Op("OP_NIL"), Op("OP_RETURN")>>,
            <<Str(<<97>>), Str(a), Str(<<98>>), Str(b), Str(<<97>>),
              Str(<<98>>)>>)>>

StrPrograms ==
    {PrintConcat(a, b) : a \in Strs, b \in Strs} \cup {PrintConcatVars(hi, bang)}

NextStr ==
    \/ Interpret(StrPrograms)
    \/ Run_OP_CONSTANT
    \/ Run_OP_DEFINE_GLOBAL
    \/ Run_OP_GET_GLOBAL
    \/ Run_OP_ADD
    \/ Run_OP_PRINT
    \/ Run_OP_NIL
    \/ Run_OP_RETURN

SpecStr == Init /\ [][NextStr]_vars

\* The chars of the string value, <<>> when value is no live string
CharsOf(h, value) ==
    IF IS_OBJ(value) /\ h[AS_OBJ(value)].type = "OBJ_STRING"
    THEN h[AS_OBJ(value)].chars ELSE <<>>

\* run() is about to execute OP_ADD on two strings
AddOfStrings ==
    /\ running /\ ~ub
    /\ Instruction.op = "OP_ADD"
    /\ IS_STRING(heap, peek(VM, 0)) /\ IS_STRING(heap, peek(VM, 1))

\* C1: OP_ADD on the strings a (stackTop[-2]) and b (stackTop[-1]) leaves,
\* one slot lower, the interned string whose bytes are those of a followed
\* by those of b.
C1_ConcatIsAThenB ==
    [][AddOfStrings /\ lastOp' = "OP_ADD" =>
         /\ Len(stack') = Len(stack) - 1
         /\ IS_STRING(heap', stack'[Len(stack')])
         /\ CharsOf(heap', stack'[Len(stack')])
              = CharsOf(heap, peek(VM, 1)) \o CharsOf(heap, peek(VM, 0))
         /\ AS_OBJ(stack'[Len(stack')]) \in LiveKeys(strings')]_vars

-----------------------------------------------------------------------------
(* Assignment to a global variable.                                        *)

x == <<120>>

y == <<121>>

\* name = n;
Assign(name, n) ==
    <<Proto(<<>>, 0, 0,
            <<Op1("OP_CONSTANT", 1), Op1("OP_SET_GLOBAL", 0), Op("OP_POP"),
              Op("OP_NIL"), Op("OP_RETURN")>>,
            <<Str(name), Num(n)>>)>>

\* var name = a; name = b; print name;
DefineAssign(name, a, b) ==
    <<Proto(<<>>, 0, 0,
            <<Op1("OP_CONSTANT", 1), Op1("OP_DEFINE_GLOBAL", 0),
              Op1("OP_CONSTANT", 3), Op1("OP_SET_GLOBAL", 2), Op("OP_POP"),
              Op1("OP_GET_GLOBAL", 4), Op("OP_PRINT"),
              Op("OP_NIL"), Op("OP_RETURN")>>,
            <<Str(name), Num(a), Str(name), Num(b), Str(name)>>)>>

\* var x = 1; x = 2; y = "hi";
DefineAssignOther ==
    <<Proto(<<>>, 0, 0,
            <<Op1("OP_CONSTANT", 1), Op1("OP_DEFINE_GLOBAL", 0),
              Op1("OP_CONSTANT", 3), Op1("OP_SET_GLOBAL", 2), Op("OP_POP"),
              Op1("OP_CONSTANT", 5), Op1("OP_SET_GLOBAL", 4), Op("OP_POP"),
              Op("OP_NIL"), Op("OP_RETURN")>>,
            <<Str(x), Num(1), Str(x), Num(2), Str(y), Str(hi)>>)>>

GlobPrograms ==
    {Assign(name, n) : name \in {x, y, clock}, n \in {1, 2}}
      \cup {DefineAssign(name, 1, 2) : name \in {x, clock}}
      \cup {DefineAssignOther}

NextGlob ==
    \/ Interpret(GlobPrograms)
    \/ Run_OP_CONSTANT
    \/ Run_OP_DEFINE_GLOBAL
    \/ Run_OP_SET_GLOBAL
    \/ Run_OP_GET_GLOBAL
    \/ Run_OP_POP
    \/ Run_OP_PRINT
    \/ Run_OP_NIL
    \/ Run_OP_RETURN

SpecGlob == Init /\ [][NextGlob]_vars

\* The interned string with these chars, NULL when there is none
Interned(chars) ==
    tableFindString(heap, strings, chars, Len(chars),
                    hashString(chars, Len(chars)))

\* C7: OP_SET_GLOBAL on a name that is not in the globals table ends the
\* run with the runtime error "Undefined variable" and the name is still
\* not found afterwards; on a defined name the value on top of the stack
\* becomes the name's value, the set of defined names is the same and the
\* stack is unchanged.
C7_SetGlobal ==
    [][running /\ ~ub /\ Instruction.op = "OP_SET_GLOBAL" =>
         LET name  == READ_STRING(VM, Instruction.a)
             value == peek(VM, 0)
         IN  /\ LiveKeys(globals') = LiveKeys(globals)
             /\ IF tableGet(heap, globals, name).found
                THEN /\ running'
                     /\ errors' = errors
                     /\ tableGet(heap', globals', name)
                          = [found |-> TRUE, value |-> value]
                     /\ stack' = stack
                ELSE /\ ~running'
                     /\ result' = "RUNTIME_ERR"
                     /\ errors' = <<"Undefined variable">>
                     /\ ~tableGet(heap', globals', name).found]_vars

\* x was defined and assigned 2, then the assignment to the undefined y
\* ended the run
C7_Witness ==
    /\ lastOp = "OP_SET_GLOBAL" /\ result = "RUNTIME_ERR"
    /\ Interned(x) # NULL /\ Interned(y) # NULL
    /\ tableGet(heap, globals, Interned(x))
         = [found |-> TRUE, value |-> NUMBER_VAL(2)]
    /\ ~tableGet(heap, globals, Interned(y)).found

-----------------------------------------------------------------------------
(* Calls that nest deeper than the frame array.                            *)

f == <<102>>

g == <<103>>

\* fun f() { f(); } f();
Recurse ==
    <<Proto(<<>>, 0, 0,
            <<Closure(1, <<>>), Op1("OP_DEFINE_GLOBAL", 0),
              Op1("OP_GET_GLOBAL", 2), Op1("OP_CALL", 0), Op("OP_POP"),
              Op("OP_NIL"), Op("OP_RETURN")>>,
            <<Str(f), Fun(2), Str(f)>>),
      Proto(f, 0, 0,
            <<Op1("OP_GET_GLOBAL", 0), Op1("OP_CALL", 0), Op("OP_POP"),
              Op("OP_NIL"), Op("OP_RETURN")>>,
            <<Str(f)>>)>>

\* fun g() {} g();   and, with an argument,   fun g() {} g(1);
CallOnce(argCount) ==
    <<Proto(<<>>, 0, 0,
            <<Closure(1, <<>>), Op1("OP_DEFINE_GLOBAL", 0),
              Op1("OP_GET_GLOBAL", 2)>>
              \o [i \in 1 .. argCount |-> Op1("OP_CONSTANT", 2 + i)]
              \o <<Op1("OP_CALL", argCount), Op("OP_POP"),
                   Op("OP_NIL"), Op("OP_RETURN")>>,
            <<Str(g), Fun(2), Str(g)>> \o [i \in 1 .. argCount |-> Num(i)]),
      Proto(g, 0, 0, <<Op("OP_NIL"), Op("OP_RETURN")>>, <<>>)>>

DeepPrograms == {Recurse, CallOnce(0), CallOnce(1)}

NextDeep ==
    \/ Interpret(DeepPrograms)
    \/ Run_OP_CLOSURE
    \/ Run_OP_DEFINE_GLOBAL
    \/ Run_OP_GET_GLOBAL
    \/ Run_OP_CONSTANT
    \/ Run_OP_CALL
    \/ Run_OP_POP
    \/ Run_OP_NIL
    \/ Run_OP_RETURN

SpecDeep == Init /\ [][NextDeep]_vars

\* run() is about to call a closure with FRAMES_MAX frames active
CallAtFramesMax ==
    /\ running /\ ~ub
    /\ Instruction.op = "OP_CALL"
    /\ CanPeek(VM, Instruction.a)
    /\ isObjType(heap, peek(VM, Instruction.a), "OBJ_CLOSURE")
    /\ Len(frames) = FRAMES_MAX

\* C5: calling a closure while FRAMES_MAX frames are active is a runtime
\* error: no frame is pushed, the dispatch loop executes nothing more and
\* interpret returns RUNTIME_ERR.
C5_OverflowEndsRun ==
    [][CallAtFramesMax =>
         /\ frames' = <<>>
         /\ ~running'
         /\ result' = "RUNTIME_ERR"]_vars

\* C6: when interpret has returned RUNTIME_ERR the stack, the frames and the
\* open-upvalue list are empty, and once runtimeError has been raised in a
\* run the dispatch loop has returned RUNTIME_ERR.
C6_ErrorLeavesReset ==
    /\ result = "RUNTIME_ERR" =>
         stack = <<>> /\ frames = <<>> /\ openUpvalues = <<>>
    /\ errors # <<>> => ~running /\ result = "RUNTIME_ERR"

\* run() executes OP_CALL and the value called is a closure
CallsClosure ==
    /\ running /\ ~ub
    /\ Instruction.op = "OP_CALL"
    /\ lastOp' = "OP_CALL"
    /\ CanPeek(VM, Instruction.a)
    /\ isObjType(heap, peek(VM, Instruction.a), "OBJ_CLOSURE")

\* The arity of the function of the closure OP_CALL calls
CalledArity == heap[heap[AS_OBJ(peek(VM, Instruction.a))].func].arity

\* C25: the base of every active frame is at or above the base of the stack
\* and at most stackTop.  The call of a closure with as many arguments as
\* its function's arity pushes a frame whose base is stackTop - argCount - 1;
\* with another number of arguments it pushes no frame and interpret
\* returns INTERPRETER_RUNTIME_ERR.
C25_FramesInStack ==
    [][/\ \A k \in 1 .. Len(frames') :
            0 <= frames'[k].slots /\ frames'[k].slots <= Len(stack')
       /\ CallsClosure =>
            IF Instruction.a = CalledArity
            THEN frames' = Append(Fetched.frames,
                                  [closure |-> AS_OBJ(peek(VM, Instruction.a)),
                                   ip |-> 1,
                                   slots |-> Len(stack) - Instruction.a - 1])
            ELSE /\ Len(frames') <= Len(frames)
                 /\ ~running' /\ result' = "RUNTIME_ERR"]_vars

-----------------------------------------------------------------------------
(* Classes: the call of a class and the definition of a method.  What run() *)
(* does with the chunk of a class declaration is checked on a VM whose      *)
(* stack compile() left alone (RunChunk): the pop(vm) of classDeclaration   *)
(* is compile's own matter.                                                 *)

A == <<65>>

meth == <<109>>

\* class A {} A(1, .., argCount);
\* classDeclaration emits no OP_POP for the class it loads before the body
ClassCall(argCount) ==
    <<Proto(<<>>, 0, 0,
            <<Op1("OP_CLASS", 0), Op1("OP_DEFINE_GLOBAL", 0),
              Op1("OP_GET_GLOBAL", 1), Op1("OP_GET_GLOBAL", 2)>>
              \o [i \in 1 .. argCount |-> Op1("OP_CONSTANT", 2 + i)]
              \o <<Op1("OP_CALL", argCount), Op("OP_POP"),
                   Op("OP_NIL"), Op("OP_RETURN")>>,
            <<Str(A), Str(A), Str(A)>> \o [i \in 1 .. argCount |-> Num(i)])>>

\* class A { name() {} }
ClassMethod(name) ==
    <<Proto(<<>>, 0, 0,
            <<Op1("OP_CLASS", 0), Op1("OP_DEFINE_GLOBAL", 0),
              Op1("OP_GET_GLOBAL", 1), Closure(3, <<>>), Op1("OP_METHOD", 2),
              Op("OP_NIL"), Op("OP_RETURN")>>,
            <<Str(A), Str(A), Str(name), Fun(2)>>),
      Proto(name, 0, 0,
            IF name = init
            THEN <<Op1("OP_GET_LOCAL", 0), Op("OP_RETURN")>>
            ELSE <<Op("OP_NIL"), Op("OP_RETURN")>>,
            <<>>)>>

ClassPrograms ==
    {ClassCall(n) : n \in 0 .. 1} \cup {ClassMethod(name) : name \in {meth, init}}

NextClass ==
    \/ RunChunk(ClassPrograms)
    \/ Run_OP_CLASS
    \/ Run_OP_DEFINE_GLOBAL
    \/ Run_OP_GET_GLOBAL
    \/ Run_OP_CONSTANT
    \/ Run_OP_CALL
    \/ Run_OP_CLOSURE
    \/ Run_OP_METHOD
    \/ Run_OP_POP
    \/ Run_OP_NIL
    \/ Run_OP_RETURN

SpecClass == Init /\ [][NextClass]_vars

\* run() is about to call a class whose methods table is a table
CallOfClass ==
    /\ running /\ ~ub
    /\ Instruction.op = "OP_CALL"
    /\ CanPeek(VM, Instruction.a)
    /\ isObjType(heap, peek(VM, Instruction.a), "OBJ_CLASS")
    /\ heap[AS_OBJ(peek(VM, Instruction.a))].methods # GarbageTable

\* The class has a method named init
HasInit(klass) ==
    /\ Interned(init) # NULL
    /\ tableGet(heap, heap[klass].methods, Interned(init)).found

\* C3: a call of a class with argCount arguments puts a new instance of the
\* class in the callee slot; then, when the class has a method init, a frame
\* for init is pushed on that slot (or its arity check ends the run), and
\* when it has none the call with argCount = 0 is complete and the call
\* with argCount # 0 ends the run with a runtime error.  (Steps in which a
\* collection traces a class with an uninitialised methods table are left
\* aside.)
C3_ClassCall ==
    [][CallOfClass /\ ~ub' =>
         LET argCount == Instruction.a
             klass    == AS_OBJ(peek(VM, Instruction.a))
             slot     == Len(stack) - Instruction.a
             made     == /\ Len(stack') = Len(stack)
                         /\ IS_INSTANCE(heap', stack'[slot])
                         /\ heap'[AS_OBJ(stack'[slot])].klass = klass
         IN  IF HasInit(klass)
             THEN \/ ~running' /\ result' = "RUNTIME_ERR"
                  \/ /\ running' /\ made
                     /\ Len(frames') = Len(frames) + 1
                     /\ OBJ_VAL(frames'[Len(frames')].closure)
                          = tableGet(heap, heap[klass].methods,
                                     Interned(init)).value
                     /\ frames'[Len(frames')].slots = slot - 1
             ELSE IF argCount = 0
             THEN running' /\ made /\ Len(frames') = Len(frames)
             ELSE ~running' /\ result' = "RUNTIME_ERR"]_vars

\* run() is about to execute OP_METHOD with a closure on top of the stack
\* and, directly below it, a class whose methods table is a table
MethodOnClass ==
    /\ running /\ ~ub
    /\ Instruction.op = "OP_METHOD"
    /\ CanPeek(VM, 1)
    /\ isObjType(heap, peek(VM, 0), "OBJ_CLOSURE")
    /\ isObjType(heap, peek(VM, 1), "OBJ_CLASS")
    /\ heap[AS_OBJ(peek(VM, 1))].methods # GarbageTable

\* C4: OP_METHOD name with a closure on top of the stack and a class below
\* it leaves the class on top of the stack, the closure popped, and the
\* methods table of that class gives the closure for name.
C4_MethodStored ==
    [][MethodOnClass =>
         LET klass == AS_OBJ(peek(VM, 1))
         IN  /\ stack' = SubSeq(stack, 1, Len(stack) - 1)
             /\ heap'[klass].type = "OBJ_CLASS"
             /\ heap'[klass].methods # GarbageTable
             /\ tableGet(heap', heap'[klass].methods,
                         READ_STRING(VM, Instruction.a))
                  = [found |-> TRUE, value |-> peek(VM, 0)]]_vars

-----------------------------------------------------------------------------
(* The collector on object graphs built through the library's functions:   *)
(* a client pushes new objects on the VM stack, stores them in fields and  *)
(* globals, pops, and calls collectGarbage(vm, NULL).                      *)

\* The number of objects the client keeps allocated at most
MaxGraph == 6

\* The number of stack slots the client uses at most
MaxSlots == 3

\* The number of calls the client makes at most
MaxCalls == 6

\* The library function op has left the VM v
Library(op, v) ==
    /\ heap' = v.heap
    /\ objects' = v.objects
    /\ stack' = v.stack
    /\ frames' = v.frames
    /\ openUpvalues' = v.openUpvalues
    /\ globals' = v.globals
    /\ strings' = v.strings
    /\ errors' = v.errors
    /\ output' = v.output
    /\ ub' = v.ub
    /\ buffers' = v.buffers
    /\ collected' = v.collected
    /\ lost' = v.lost
    /\ lastOp' = op
    /\ runs' = runs + 1
    /\ UNCHANGED <<running, result, program, parser, collector>>

\* The client may call the library
CanCall == ~running /\ ~ub /\ runs < MaxCalls

\* The client may allocate
CanAllocate ==
    /\ CanCall
    /\ Len(objects) < MaxGraph
    /\ Len(stack) < MaxSlots

\* The strings a collection cannot free: the client passes only these
RootedStrings ==
    LiveKeys(globals)
      \cup {AS_OBJ(value) : value \in {s \in Range(stack) : IS_STRING(heap, s)}}

\* push(vm, OBJ_VAL(copyString(vm, NULL, length, chars)))
PushString ==
    /\ CanAllocate
    /\ \E chars \in {x}, gc \in BOOLEAN :
         \E r \in {copyString(VM, NoCompiler, gc, Len(chars), chars)} :
            Library("copyString", push(r.v, OBJ_VAL(r.o)))

\* push(vm, OBJ_VAL(newClass(vm, NULL, name)))
PushClass ==
    /\ CanAllocate
    /\ \E name \in RootedStrings, gc \in BOOLEAN,
          mem \in {initTable, GarbageTable} :
         \E r \in {newClass(VM, NoCompiler, gc, name, mem)} :
            Library("newClass", push(r.v, OBJ_VAL(r.o)))

\* push(vm, OBJ_VAL(newInstance(vm, NULL, klass))) for the class on top
PushInstance ==
    /\ CanAllocate
    /\ CanPeek(VM, 0) /\ isObjType(heap, peek(VM, 0), "OBJ_CLASS")
    /\ \E gc \in BOOLEAN :
         \E r \in {newInstance(VM, NoCompiler, gc, AS_OBJ(peek(VM, 0)))} :
            Library("newInstance", push(r.v, OBJ_VAL(r.o)))

\* func = newFunction(vm, NULL); push(func); closure = newClosure(vm, NULL,
\* func); pop(vm); push(closure)
PushClosure ==
    /\ CanAllocate /\ Len(objects) + 1 < MaxGraph
    /\ \E gc \in BOOLEAN :
         \E func \in {newFunction(VM, NoCompiler, gc)} :
           \E r \in {newClosure(push(func.v, OBJ_VAL(func.o)), NoCompiler, gc,
                                func.o)} :
              Library("newClosure", push(pop(r.v), OBJ_VAL(r.o)))

\* push(vm, OBJ_VAL(newBoundMethod(vm, NULL, receiver, method))) for the
\* closure method on top of the stack and the receiver below it
PushBoundMethod ==
    /\ CanAllocate
    /\ CanPeek(VM, 1) /\ isObjType(heap, peek(VM, 0), "OBJ_CLOSURE")
    /\ \E gc \in BOOLEAN :
         \E r \in {newBoundMethod(VM, NoCompiler, gc, peek(VM, 1),
                                  AS_OBJ(peek(VM, 0)))} :
            Library("newBoundMethod", push(r.v, OBJ_VAL(r.o)))

\* tableSet(vm, NULL, &instance->fields, key, value); pop(vm): the value is
\* on top of the stack, the instance below it
SetField ==
    /\ CanCall
    /\ CanPeek(VM, 1) /\ IS_INSTANCE(heap, peek(VM, 1))
    /\ \E key \in RootedStrings, gc \in BOOLEAN :
         \E r \in {tableSet(VM, NoCompiler, gc, FieldsRef(AS_OBJ(peek(VM, 1))),
                            key, peek(VM, 0))} :
            Library("tableSet", pop(r.v))

\* tableSet(vm, NULL, &vm->globals, key, value); pop(vm)
SetGlobal ==
    /\ CanCall
    /\ CanPeek(VM, 0)
    /\ \E key \in RootedStrings, gc \in BOOLEAN :
         \E r \in {tableSet(VM, NoCompiler, gc, GlobalsRef, key, peek(VM, 0))} :
            Library("tableSet", pop(r.v))

\* pop(vm)
Pop ==
    /\ CanCall
    /\ CanPeek(VM, 0)
    /\ Library("pop", pop(VM))

\* collectGarbage(vm, NULL)
CollectGarbage ==
    /\ CanCall
    /\ Library("collectGarbage", collectGarbage(VM, NoCompiler))

NextGC ==
    \/ PushString
    \/ PushClass
    \/ PushInstance
    \/ PushClosure
    \/ PushBoundMethod
    \/ SetField
    \/ SetGlobal
    \/ Pop
    \/ CollectGarbage

SpecGC == Init /\ [][NextGC]_vars

\* The objects an object refers to: what blackenObject follows and, for a
\* bound method, its receiver and its method closure
References(h, o) ==
    IF h[o].type = "FREE" THEN {}
    ELSE IF h[o].type = "OBJ_BOUND_METHOD"
    THEN ObjectsOf({h[o].receiver}) \cup {h[o].method}
    ELSE blackenObject(h, o)

RECURSIVE Reach(_, _, _)
Reach(h, seen, frontier) ==
    IF frontier = {} THEN seen
    ELSE The({Reach(h, seen \cup new, new)
              : new \in {UNION {References(h, o) : o \in frontier} \ seen}})

\* The objects reachable from the roots of the collector
Reachable == Reach(heap, markRoots(VM, NoCompiler), markRoots(VM, NoCompiler))

\* The objects marked at the end of tracing, were a collection to start now
MarkedNow == Marked(VM, markRoots(VM, NoCompiler))

\* C8: collectGarbage frees no object that is reachable from a root through
\* the references of the objects, those of bound methods included: every
\* such object is still allocated and linked afterwards.
C8_ReachableSurvives ==
    [][lastOp' = "collectGarbage" /\ ~ub' =>
         \A o \in Reachable :
            /\ heap'[o].type = heap[o].type
            /\ o \in Range(objects')]_vars

\* C9: collectGarbage frees and unlinks every object that is unreachable
\* from the roots when it starts, and the object list afterwards holds
\* exactly the objects that were marked.
C9_UnreachableFreed ==
    [][lastOp' = "collectGarbage" /\ ~ub' =>
         /\ \A o \in Range(objects) \ Reachable :
               heap'[o] = FreeCell /\ o \notin Range(objects')
         /\ Range(objects') = MarkedNow]_vars

\* C10: after a collection the keys of the string pool are the keys it had
\* whose strings were marked at the end of tracing; the strings of the other
\* keys are freed; and after any call the keys of the pool are allocated
\* strings.
C10_PoolHasNoFreedKey ==
    [][~ub' =>
         /\ \A k \in LiveKeys(strings') : heap'[k].type = "OBJ_STRING"
         /\ lastOp' = "collectGarbage" =>
              /\ LiveKeys(strings') = LiveKeys(strings) \cap MarkedNow
              /\ \A k \in LiveKeys(strings) \ MarkedNow : heap'[k] = FreeCell]_vars

\* A collection has deleted the unmarked string x from the pool, where it
\* left a tombstone, and kept the marked string clock
C10_Witness ==
    /\ lastOp = "collectGarbage" /\ ~ub
    /\ Interned(x) = NULL
    /\ Interned(clock) # NULL
    /\ \E i \in 1 .. Len(strings.entries) :
          strings.entries[i] = [key |-> NULL, value |-> BOOL_VAL(TRUE)]

-----------------------------------------------------------------------------
(* Closures over the local of a function that has returned: the counter    *)
(*   fun make() { var i = 0; fun inc() { i = i + 1; return i; }            *)
(*                return inc; }                                            *)
(*   var c = make(); print c(); print c(); print c();                      *)
(* as compile() translates it.  The operands of the accesses of i and the  *)
(* pairs after each OP_CLOSURE are those the compiler computes.            *)

make == <<109, 97, 107, 101>>

inc == <<105, 110, 99>>

Name_i == <<105>>

Name_c == <<99>>

\* The compilers of the script, of make and of inc when the body of inc is
\* about to be compiled: slot 0 of each is the local initCompiler names ""
CounterCompilers ==
    <<[locals |-> << <<>> >>, upvalues |-> <<>>],
      [locals |-> << <<>>, Name_i, inc >>, upvalues |-> <<>>],
      [locals |-> << <<>> >>, upvalues |-> <<>>]>>

\* The accesses of i in the body of inc, in the order namedVariable is
\* called for them: the target of the assignment, its right side, return i
AssignedUse == namedVariable(CounterCompilers, Name_i, 0)

AddedUse == namedVariable(AssignedUse.cs, Name_i, 0)

ReturnedUse == namedVariable(AddedUse.cs, Name_i, 0)

\* The compilers when inc has been compiled
CounterCompiled == ReturnedUse.cs

\* return inc; in the body of make
IncUse == namedVariable(SubSeq(CounterCompiled, 1, 2), inc, 0)

\* The largest index an entry of an upvalues array that was never written
\* holds in the model
MaxStale == 3

\* What an entry of an upvalues array that was never written can hold
StaleUpvalues ==
    {[isLocal |-> b, index |-> n] : b \in BOOLEAN, n \in 0 .. MaxStale}

Counter(stale) ==
    <<Proto(<<>>, 0, 0,
            <<Closure(1, EmittedPairs(CounterCompiled[1],
                                      Len(CounterCompiled[2].upvalues), stale)),
              Op1("OP_DEFINE_GLOBAL", 0),
              Op1("OP_GET_GLOBAL", 3), Op1("OP_CALL", 0),
              Op1("OP_DEFINE_GLOBAL", 2),
              Op1("OP_GET_GLOBAL", 4), Op1("OP_CALL", 0), Op("OP_PRINT"),
              Op1("OP_GET_GLOBAL", 5), Op1("OP_CALL", 0), Op("OP_PRINT"),
              Op1("OP_GET_GLOBAL", 6), Op1("OP_CALL", 0), Op("OP_PRINT"),
              Op("OP_NIL"), Op("OP_RETURN")>>,
            <<Str(make), Fun(2), Str(Name_c), Str(make), Str(Name_c),
              Str(Name_c), Str(Name_c)>>),
      Proto(make, 0, Len(CounterCompiled[2].upvalues),
            <<Op1("OP_CONSTANT", 0),
              Closure(1, EmittedPairs(CounterCompiled[2],
                                      Len(CounterCompiled[3].upvalues), stale)),
              Op1(IncUse.getOp, IncUse.arg), Op("OP_RETURN"),
              Op("OP_NIL"), Op("OP_RETURN")>>,
            <<Num(0), Fun(3)>>),
      Proto(inc, 0, Len(CounterCompiled[3].upvalues),
            <<Op1(AddedUse.getOp, AddedUse.arg), Op1("OP_CONSTANT", 0),
              Op("OP_ADD"), Op1(AssignedUse.setOp, AssignedUse.arg),
              Op("OP_POP"),
              Op1(ReturnedUse.getOp, ReturnedUse.arg), Op("OP_RETURN"),
              Op("OP_NIL"), Op("OP_RETURN")>>,
            <<Num(1)>>)>>

UpPrograms == {Counter(stale) : stale \in StaleUpvalues}

NextUp ==
    \/ Interpret(UpPrograms)
    \/ Run_OP_CLOSURE
    \/ Run_OP_DEFINE_GLOBAL
    \/ Run_OP_GET_GLOBAL
    \/ Run_OP_CALL
    \/ Run_OP_CONSTANT
    \/ Run_OP_GET_LOCAL
    \/ Run_OP_GET_UPVALUE
    \/ Run_OP_SET_UPVALUE
    \/ Run_OP_ADD
    \/ Run_OP_POP
    \/ Run_OP_PRINT
    \/ Run_OP_NIL
    \/ Run_OP_RETURN

SpecUp == Init /\ [][NextUp]_vars

\* What the counter writes when its three calls count on from each other
Counted ==
    <<printValue(heap, NUMBER_VAL(1)), printValue(heap, NUMBER_VAL(2)),
      printValue(heap, NUMBER_VAL(3))>>

\* C2: the closure inc keeps reading and writing the local i of make after
\* make has returned.  No two open upvalues are of the same slot, so the
\* closures that captured a slot share one upvalue; and when the run of the
\* counter has ended it has ended without error and has printed 1, 2, 3.
C2_CounterCounts ==
    /\ ~ub => \A a, b \in 1 .. Len(openUpvalues) :
                 a # b => heap[openUpvalues[a]].location
                            # heap[openUpvalues[b]].location
    /\ program \in UpPrograms /\ ~running =>
         ~ub /\ result = "OK" /\ output = Counted

\* The slot each open upvalue points to, from the head of the list
OpenSlots == [a \in 1 .. Len(openUpvalues) |-> heap[openUpvalues[a]].location]

\* C22: the list of open upvalues is strictly descending by the slot the
\* upvalues point to, so no two of them are of the same slot; and
\* captureUpvalue asked for a slot that has an open upvalue returns that
\* upvalue and leaves the VM as it is.
C22_OpenUpvaluesDescend ==
    /\ \A a \in 1 .. Len(openUpvalues) :
         /\ heap[openUpvalues[a]].type = "OBJ_UPVALUE"
         /\ heap[openUpvalues[a]].open
         /\ a > 1 => OpenSlots[a - 1] > OpenSlots[a]
    /\ \A a \in 1 .. Len(openUpvalues), gc \in BOOLEAN :
         captureUpvalue(VM, gc, OpenSlots[a])
           = [v |-> VM, o |-> openUpvalues[a]]

\* OP_CLOSURE has captured a slot below the one of an open upvalue: the new
\* upvalue is the second of the list
C22_InsertedBehind ==
    /\ lastOp = "OP_CLOSURE" /\ ~ub
    /\ Len(openUpvalues) = 2
    /\ openUpvalues[2] > openUpvalues[1]

\* The slot OP_RETURN and OP_CLOSE_UPVALUE discard from: the base of the
\* frame that returns, the top slot that is popped
Discarded ==
    IF Instruction.op = "OP_RETURN" THEN frames[Len(frames)].slots
    ELSE Len(stack) - 1

\* C23: after OP_RETURN or OP_CLOSE_UPVALUE no open upvalue points to a
\* slot at or above the discarded position, the base of the frame that
\* returned or the top slot that was popped; and in every state every open
\* upvalue points to a slot strictly below stackTop.
C23_OpenBelowTop ==
    [][/\ running /\ lastOp' \in {"OP_RETURN", "OP_CLOSE_UPVALUE"} =>
            \A a \in 1 .. Len(openUpvalues') :
              heap'[openUpvalues'[a]].location < Discarded
       /\ ~ub' =>
            \A a \in 1 .. Len(openUpvalues') :
              heap'[openUpvalues'[a]].location < Len(stack')]_vars

-----------------------------------------------------------------------------
(* The string pool under a client that interns strings with copyString and *)
(* takeString, drops them and collects.  ab and ac have the same hash      *)
(* (hashString reads the first byte only) and differ in their bytes.       *)

ac == <<97, 99>>

InternStrs == {ab, ac, x}

\* push(vm, OBJ_VAL(copyString(vm, NULL, length, chars)))
CopyString ==
    /\ CanAllocate
    /\ \E chars \in InternStrs, gc \in BOOLEAN :
         \E r \in {copyString(VM, NoCompiler, gc, Len(chars), chars)} :
            Library("copyString", push(r.v, OBJ_VAL(r.o)))

\* buffer = ALLOCATE(char, length + 1), filled with chars;
\* push(vm, OBJ_VAL(takeString(vm, NULL, length, buffer)))
TakeString ==
    /\ CanAllocate
    /\ \E chars \in InternStrs, gc \in BOOLEAN :
         \E r \in {takeString(AllocateChars(VM, NoCompiler, FALSE), NoCompiler,
                              gc, Len(chars), chars)} :
            Library("takeString", push(r.v, OBJ_VAL(r.o)))

NextIntern ==
    \/ CopyString
    \/ TakeString
    \/ Pop
    \/ CollectGarbage

SpecIntern == Init /\ [][NextIntern]_vars

\* The string objects that are allocated
StringsOf(h) == {a \in Addresses : h[a].type = "OBJ_STRING"}

\* The keys of the pool whose string has these bytes
Pooled(chars) == {k \in LiveKeys(strings) : heap[k].chars = chars}

\* C11: no two string objects have the same bytes and every string object
\* is a key of the pool; copyString and takeString of bytes that a pooled
\* string has return that string and leave the VM as it was, takeString
\* having released the array it was handed; every character array that is
\* allocated belongs to one string.
C11_Interned ==
    ~ub =>
      /\ \A a, b \in StringsOf(heap) : heap[a].chars = heap[b].chars => a = b
      /\ StringsOf(heap) = LiveKeys(strings)
      /\ buffers = Cardinality(StringsOf(heap))
      /\ \A chars \in InternStrs : \A k \in Pooled(chars) :
            /\ copyString(VM, NoCompiler, TRUE, Len(chars), chars)
                 = [v |-> VM, o |-> k]
            /\ takeString(AllocateChars(VM, NoCompiler, FALSE), NoCompiler,
                          TRUE, Len(chars), chars)
                 = [v |-> VM, o |-> k]

\* takeString has returned the string that was interned before, which is
\* now twice on the stack, while the pool holds another string of the same
\* hash and the tombstone of a collected one
C11_Witness ==
    /\ lastOp = "takeString" /\ ~ub
    /\ Len(stack) >= 2
    /\ IS_STRING(heap, stack[Len(stack)])
    /\ stack[Len(stack)] = stack[Len(stack) - 1]
    /\ \E k \in LiveKeys(strings) :
          /\ k # AS_OBJ(stack[Len(stack)])
          /\ heap[k].hash = heap[AS_OBJ(stack[Len(stack)])].hash
    /\ \E n \in 1 .. Len(strings.entries) :
          strings.entries[n] = [key |-> NULL, value |-> BOOL_VAL(TRUE)]

-----------------------------------------------------------------------------
(* Collections inside the operations that allocate more than once: the     *)
(* definition of the native (initVM), the interning of strings and the     *)
(* adding of constants (compile), the closure of the script (interpret),   *)
(* the concatenation (OP_ADD) and the closures with their upvalues         *)
(* (OP_CLOSURE).  An action whose gc is TRUE collects at every growing     *)
(* allocation, as a build with DEBUG_STRESS_GC does.                       *)

StressPrograms ==
    {PrintConcat(hi, bang), PrintConcatVars(hi, bang),
     Counter([isLocal |-> TRUE, index |-> 0])}

NextStress ==
    \/ Interpret(StressPrograms)
    \/ Run_OP_CLOSURE
    \/ Run_OP_DEFINE_GLOBAL
    \/ Run_OP_GET_GLOBAL
    \/ Run_OP_CALL
    \/ Run_OP_CONSTANT
    \/ Run_OP_GET_LOCAL
    \/ Run_OP_GET_UPVALUE
    \/ Run_OP_SET_UPVALUE
    \/ Run_OP_ADD
    \/ Run_OP_POP
    \/ Run_OP_PRINT
    \/ Run_OP_NIL
    \/ Run_OP_RETURN

SpecStress == Init /\ [][NextStress]_vars

\* C12: no collection that runs inside an operation frees an object operand
\* of the operation or an object the operation has allocated before; so no
\* reference of the VM is left pointing to freed memory.
C12_NothingLost ==
    /\ ~lost
    /\ ~ub

\* A concatenation of the second program run on the VM has collected at
\* its allocations and has pushed its string; an object of the VM has the
\* address of an object that a collection had freed (the addresses of the
\* object list do not descend)
C12_Witness ==
    /\ lastOp = "OP_ADD" /\ collected /\ runs = MaxRuns
    /\ ~lost /\ ~ub
    /\ IS_STRING(heap, stack[Len(stack)])
    /\ \E n \in 1 .. Len(objects) - 1 : objects[n] < objects[n + 1]

-----------------------------------------------------------------------------
(* Compile errors and panic mode.  compile() is followed through its loop: *)
(* one action per declaration, and one per test of the loop of             *)
(* synchronize, whose only state is the place it has reached.              *)

\* interpret() calls compile() on a source of the set Sources
Compile(Sources) ==
    /\ ~running /\ ~ub /\ parser.pc = "idle"
    /\ \E source \in Sources : parser' = Compiling(source)
    /\ runs' = runs + 1
    /\ lastOp' = "compile"
    /\ UNCHANGED vmVars

\* The loop of compile() finds a token that is not TOKEN_EOF: declaration,
\* which enters synchronize (panicMode = false, then the loop) when the
\* parser panics
Declaration ==
    /\ parser.pc = "compile" /\ ~parser.ub /\ ~check(parser, "TOKEN_EOF")
    /\ \E p \in {[Declared(parser) EXCEPT !.starts =
                                   @ \cup {Len(Declared(parser).code) + 1}]} :
         parser' = IF p.panicMode /\ ~p.ub /\ p.pc # "hung"
                   THEN [p EXCEPT !.pc = "synchronize", !.panicMode = FALSE]
                   ELSE p
    /\ lastOp' = "declaration"
    /\ UNCHANGED <<vmVars, runs>>

\* synchronize: while (parser->current.type != TOKEN_EOF); after the loop,
\* advance
SynchronizeWhile ==
    /\ parser.pc = "synchronize"
    /\ parser' = IF parser.current.type # "TOKEN_EOF"
                 THEN [parser EXCEPT !.pc = "boundary"]
                 ELSE [advance(parser) EXCEPT !.pc = "compile"]
    /\ lastOp' = "synchronize"
    /\ UNCHANGED <<vmVars, runs>>

\* synchronize: the body of the loop returns after a semicolon and before
\* a keyword that begins a statement, else it goes back to the test
SynchronizeSwitch ==
    /\ parser.pc = "boundary"
    /\ parser' = [parser EXCEPT !.pc =
                     IF \/ parser.previous.type = "TOKEN_SEMICOLON"
                        \/ parser.current.type \in Boundaries
                     THEN "compile" ELSE "synchronize"]
    /\ lastOp' = "synchronize"
    /\ UNCHANGED <<vmVars, runs>>

\* The loop of compile() matches TOKEN_EOF: endCompiler emits the return
\* and compile() returns, NULL when hadError is set
Returns ==
    /\ parser.pc = "compile" /\ ~parser.ub /\ check(parser, "TOKEN_EOF")
    /\ \E p \in {advance(parser)} :
         parser' = [emitReturn(p) EXCEPT !.pc = "returned"]
    /\ lastOp' = "compile"
    /\ UNCHANGED <<vmVars, runs>>

\* interpret() after compile(): it returns INTERPRETER_COMPILE_ERR or
\* enters run().  What compile() allocated is in the heap in both cases.
Interpreted ==
    /\ parser.pc = "returned"
    /\ \E unit \in {Compiled(parser)}, gc \in BOOLEAN :
         /\ Room(heap, ObjectsOfUnit(unit, 1))
         /\ \E func \in {compile([VM EXCEPT !.errors = <<>>,
                                           !.output = <<>>], unit, gc)} :
              \E v \in {IF parser.hadError
                        THEN Return(func.v, "COMPILE_ERR")
                        ELSE EnterRun(func, gc)} : Becomes(v)
         /\ program' = unit
    /\ parser' = [parser EXCEPT !.pc = "done"]
    /\ lastOp' = "interpret"
    /\ UNCHANGED runs

\* The longest source of the model, in tokens
MaxTokens == 3

\* The tokens of the sources: 1 + ; print var a and a character the
\* scanner does not know
SyncTokens ==
    {Token("TOKEN_NUMBER", <<49>>), Token("TOKEN_PLUS", <<43>>),
     Token("TOKEN_SEMICOLON", <<59>>),
     Token("TOKEN_PRINT", <<112, 114, 105, 110, 116>>),
     Token("TOKEN_VAR", <<118, 97, 114>>),
     Token("TOKEN_IDENTIFIER", <<97>>), Token("TOKEN_ERROR", <<64>>)}

SyncSources ==
    UNION {[1 .. n -> SyncTokens] : n \in 0 .. MaxTokens}

NextSync ==
    \/ Compile(SyncSources)
    \/ Declaration
    \/ SynchronizeWhile
    \/ SynchronizeSwitch
    \/ Returns
    \/ Interpreted
    \/ Run_OP_CONSTANT
    \/ Run_OP_DEFINE_GLOBAL
    \/ Run_OP_GET_GLOBAL
    \/ Run_OP_POP
    \/ Run_OP_PRINT
    \/ Run_OP_NIL
    \/ Run_OP_RETURN

\* A step of compile()
CompileStep ==
    Declaration \/ SynchronizeWhile \/ SynchronizeSwitch \/ Returns

\* compile() runs on: no step of it is put off for ever
SpecSync == Init /\ [][NextSync]_vars /\ WF_vars(CompileStep)

\* C13: panic-mode synchronization terminates on every finite token
\* stream, so that every compile() that was called returns.
C13_CompileReturns ==
    parser.pc \in {"compile", "synchronize", "boundary"}
        ~> parser.pc = "returned"

\* What holds of the errors of a compile(): hadError is set iff an error
\* was reported, and an interpret() that has returned after one has
\* returned INTERPRETER_COMPILE_ERR with no frame pushed and nothing printed
ErrorsKept ==
    /\ parser.hadError <=> parser.reported # <<>>
    /\ parser.pc = "done" =>
         IF parser.hadError
         THEN /\ result = "COMPILE_ERR" /\ ~running
              /\ frames = <<>> /\ output = <<>>
         ELSE result # "COMPILE_ERR"

\* A step of compile() keeps hadError once it is set, and reports at most
\* one error per declaration: panicMode is set from the first error of a
\* declaration until synchronize
ErrorsStay ==
    /\ parser.hadError => parser'.hadError
    /\ Len(parser'.reported) <= Len(parser.reported) + 1

\* C14: compile() returns no function and interpret() returns COMPILE_ERR,
\* without executing an instruction, exactly when an error was reported:
\* hadError is never cleared, no error is reported in panic mode, and a
\* compile() that has reported an error returns NULL.
C14_ErrorGivesCompileErr ==
    /\ []ErrorsKept
    /\ [][ErrorsStay]_vars
    /\ parser.reported # <<>>
         ~> (parser.pc \in {"returned", "done"} /\ parser.hadError)

-----------------------------------------------------------------------------
(* The constants of a chunk.                                               *)

\* The statement 1; n times
Ones(n) ==
    [i \in 1 .. 2 * n |-> IF i % 2 = 1 THEN Token("TOKEN_NUMBER", <<49>>)
                          ELSE Token("TOKEN_SEMICOLON", <<59>>)]

\* The number of constants of the longest source
MaxConstants == 129

PoolSources == {Ones(1), Ones(MaxConstants)}

NextPool ==
    \/ Compile(PoolSources)
    \/ Declaration
    \/ Returns

SpecPool == Init /\ [][NextPool]_vars

\* The instructions whose operand is the index of a constant
Indexing ==
    {"OP_CONSTANT", "OP_DEFINE_GLOBAL", "OP_GET_GLOBAL", "OP_SET_GLOBAL",
     "OP_GET_PROPERTY", "OP_SET_PROPERTY", "OP_INVOKE", "OP_GET_SUPER",
     "OP_SUPER_INVOKE", "OP_CLASS", "OP_METHOD", "OP_CLOSURE"}

\* The operands of code that index its constants
Indexes(code) ==
    {code[i].a : i \in {k \in 1 .. Len(code) : code[k].op \in Indexing}}

\* C15: the constants of a chunk are never more than 256: adding the
\* 257th is the compile error "Too many constants in one chunk.", adding
\* a constant is defined, and the one-byte indexes emitted are those of
\* the constants added.
C15_ConstantsFit ==
    /\ ~parser.ub
    /\ Len(parser.constants) > UINT8_COUNT =>
         \E i \in 1 .. Len(parser.reported) :
            parser.reported[i].message = "Too many constants in one chunk."
    /\ parser.pc \in {"compile", "returned"} /\ ~parser.hadError =>
         Indexes(parser.code) = 0 .. Len(parser.constants) - 1

-----------------------------------------------------------------------------
(* The arguments of a call.                                                *)

\* The most arguments of a call of the model
MaxArgs == 256

\* f(nil, ..., nil); with n arguments
CallOf(n) ==
    <<Token("TOKEN_IDENTIFIER", <<102>>), Token("TOKEN_LEFT_PAREN", <<40>>)>>
      \o [i \in 1 .. (IF n = 0 THEN 0 ELSE 2 * n - 1) |->
            IF i % 2 = 1 THEN Token("TOKEN_NIL", <<110, 105, 108>>)
            ELSE Token("TOKEN_COMMA", <<44>>)]
      \o <<Token("TOKEN_RIGHT_PAREN", <<41>>),
           Token("TOKEN_SEMICOLON", <<59>>)>>

ArgSources == {CallOf(n) : n \in 0 .. MaxArgs}

NextArgs ==
    \/ Compile(ArgSources)
    \/ Declaration
    \/ SynchronizeWhile
    \/ Returns

SpecArgs == Init /\ [][NextArgs]_vars

\* The argument expressions compiled before the instruction at k: each
\* argument of the model's calls is nil
ArgumentsBefore(code, k) ==
    Cardinality({i \in 1 .. k - 1 : code[i].op = "OP_NIL"})

\* C16: a call with more than 254 arguments is reported as the compile
\* error "Can't have more than 254 arguments.", and the operand of CALL is
\* the number of argument expressions compiled.
C16_ArgumentsCounted ==
    \A k \in 1 .. Len(parser.code) :
       parser.code[k].op = "OP_CALL" =>
          /\ parser.code[k].a = ArgumentsBefore(parser.code, k)
          /\ ArgumentsBefore(parser.code, k) > 254 =>
                \E i \in 1 .. Len(parser.reported) :
                   parser.reported[i].message
                      = "Can't have more than 254 arguments."

-----------------------------------------------------------------------------
(* Control flow: if, while and for.                                        *)

Lexeme(type, text) == Token(type, text)

T_true  == Token("TOKEN_TRUE", <<116, 114, 117, 101>>)
T_false == Token("TOKEN_FALSE", <<102, 97, 108, 115, 101>>)
T_nil   == Token("TOKEN_NIL", <<110, 105, 108>>)
T_if    == Token("TOKEN_IF", <<105, 102>>)
T_else  == Token("TOKEN_ELSE", <<101, 108, 115, 101>>)
T_while == Token("TOKEN_WHILE", <<119, 104, 105, 108, 101>>)
T_for   == Token("TOKEN_FOR", <<102, 111, 114>>)
T_var   == Token("TOKEN_VAR", <<118, 97, 114>>)
T_print == Token("TOKEN_PRINT", <<112, 114, 105, 110, 116>>)
T_open  == Token("TOKEN_LEFT_PAREN", <<40>>)
T_close == Token("TOKEN_RIGHT_PAREN", <<41>>)
T_semi  == Token("TOKEN_SEMICOLON", <<59>>)
T_equal == Token("TOKEN_EQUAL", <<61>>)
T_less  == Token("TOKEN_LESS", <<60>>)
T_plus  == Token("TOKEN_PLUS", <<43>>)
T_a     == Token("TOKEN_IDENTIFIER", <<97>>)
T_i     == Token("TOKEN_IDENTIFIER", <<105>>)

T_num(n) == Token("TOKEN_NUMBER", <<48 + n>>)

\* print n;
PrintOf(n) == <<T_print, T_num(n), T_semi>>

\* if (c) print 1;   and   if (c) print 1; else print 2;
IfOf(c) == <<T_if, T_open, c, T_close>> \o PrintOf(1)

IfElseOf(c) == IfOf(c) \o <<T_else>> \o PrintOf(2)

\* var a = true; while (a) body   with a body that ends the loop
WhileOf(body) ==
    <<T_var, T_a, T_equal, T_true, T_semi, T_while, T_open, T_a, T_close>>
      \o body

\* a = false;
Clear == <<T_a, T_equal, T_false, T_semi>>

Conditions == {T_true, T_false, T_nil, T_num(0)}

\* Every source ends with print 3;
BranchSources ==
    {s \o PrintOf(3) :
       s \in {IfOf(c) : c \in Conditions}
              \cup {IfElseOf(c) : c \in Conditions}
              \cup {<<T_while, T_open, c, T_close>> \o PrintOf(1)
                       : c \in {T_false, T_nil}}
              \cup {WhileOf(Clear),
                    WhileOf(<<T_if, T_open, T_a, T_close>> \o Clear),
                    WhileOf(<<T_if, T_open, T_false, T_close>> \o PrintOf(1)
                              \o <<T_else>> \o Clear),
                    <<T_if, T_open, T_true, T_close, T_while, T_open,
                      T_false, T_close>> \o PrintOf(1)}}

NextBranch ==
    \/ Compile(BranchSources)
    \/ Declaration
    \/ Returns
    \/ Interpreted
    \/ Run_OP_CONSTANT
    \/ Run_OP_NIL
    \/ Run_OP_TRUE
    \/ Run_OP_FALSE
    \/ Run_OP_POP
    \/ Run_OP_GET_GLOBAL
    \/ Run_OP_DEFINE_GLOBAL
    \/ Run_OP_SET_GLOBAL
    \/ Run_OP_PRINT
    \/ Run_OP_JUMP
    \/ Run_OP_JUMP_IF_FALSE
    \/ Run_OP_LOOP
    \/ Run_OP_RETURN

SpecBranch == Init /\ [][NextBranch]_vars

\* run() is between two declarations of the script
BetweenDeclarations ==
    /\ running /\ ~ub
    /\ Len(frames) = 1
    /\ frames[1].ip \in parser.starts

\* C17: an if statement, with or without else, and a while statement leave
\* the stack as high as they found it on every path: the condition that
\* JUMP_IF_FALSE leaves on the stack is popped once.  The stack of a
\* script between two of its declarations holds the script's closure only.
C17_BranchesAreNeutral ==
    /\ ~ub
    /\ BetweenDeclarations => Len(stack) = 1
    /\ result \in {"", "OK"}

\* A while loop whose body has run is left, and run() is at the declaration
\* after it
C17_LoopLeft ==
    /\ BetweenDeclarations
    /\ lastOp = "OP_POP"
    /\ Len(stack) = 1
    /\ \E k \in 1 .. Len(parser.code) :
         /\ parser.code[k].op = "OP_LOOP"
         /\ frames[1].ip = k + 2
         /\ \E b \in 1 .. k : parser.code[b].op = "OP_SET_GLOBAL"

\* for (first cond; incr) body   with the clauses given as token sequences
ForOf(first, cond, incr, body) ==
    <<T_for, T_open>> \o first \o cond \o <<T_semi>> \o incr \o <<T_close>>
      \o body

\* var i = true;
VarI == <<T_var, T_i, T_equal, T_true, T_semi>>

\* i = false
ClearI == <<T_i, T_equal, T_false>>

\* Every source has a condition clause in its for statement and ends with
\* print 3;
ForSources ==
    {s \o PrintOf(3) :
       s \in {ForOf(<<T_semi>>, <<c>>, <<>>, PrintOf(1))
                : c \in {T_false, T_nil}}
              \cup {ForOf(VarI, <<T_i>>, ClearI, PrintOf(1)),
                    ForOf(VarI, <<T_i>>, <<>>, ClearI \o <<T_semi>>),
                    ForOf(VarI, <<T_false>>, <<>>, PrintOf(1)),
                    <<T_var, T_a, T_equal, T_true, T_semi>>
                      \o ForOf(<<T_semi>>, <<T_a>>, <<>>, Clear),
                    <<T_var, T_a, T_equal, T_true, T_semi>>
                      \o ForOf(<<T_a, T_semi>>, <<T_a>>,
                               <<T_a, T_equal, T_false>>, PrintOf(1))}}

NextFor ==
    \/ Compile(ForSources)
    \/ Declaration
    \/ Returns
    \/ Interpreted
    \/ Run_OP_CONSTANT
    \/ Run_OP_NIL
    \/ Run_OP_TRUE
    \/ Run_OP_FALSE
    \/ Run_OP_POP
    \/ Run_OP_GET_LOCAL
    \/ Run_OP_SET_LOCAL
    \/ Run_OP_GET_GLOBAL
    \/ Run_OP_DEFINE_GLOBAL
    \/ Run_OP_SET_GLOBAL
    \/ Run_OP_PRINT
    \/ Run_OP_JUMP
    \/ Run_OP_JUMP_IF_FALSE
    \/ Run_OP_LOOP
    \/ Run_OP_RETURN

SpecFor == Init /\ [][NextFor]_vars

\* C18: a for statement with a condition clause leaves the stack as high
\* as it found it, whether its body runs or not: the condition is popped on
\* the way into the body and on the way out, and the end of the scope pops
\* the loop's own locals.  The stack of a script between two of its
\* declarations holds the script's closure only.
C18_ForIsNeutral == BetweenDeclarations => Len(stack) = 1

-----------------------------------------------------------------------------
(* Class declarations, compiled and run.                                   *)

T_class  == Token("TOKEN_CLASS", <<99, 108, 97, 115, 115>>)
T_super  == Token("TOKEN_SUPER", super)
T_lbrace == Token("TOKEN_LEFT_BRACE", <<123>>)
T_rbrace == Token("TOKEN_RIGHT_BRACE", <<125>>)
T_dot    == Token("TOKEN_DOT", <<46>>)
T_A      == Token("TOKEN_IDENTIFIER", A)
T_B      == Token("TOKEN_IDENTIFIER", <<66>>)
T_m      == Token("TOKEN_IDENTIFIER", meth)
T_init   == Token("TOKEN_IDENTIFIER", init)

\* name() { body }
MethodOf(name, body) ==
    <<name, T_open, T_close, T_lbrace>> \o body \o <<T_rbrace>>

\* class A { methods }
ClassOf(methods) == <<T_class, T_A, T_lbrace>> \o methods \o <<T_rbrace>>

\* The next line of a session: interpret() is called again, the VM is as
\* the line before left it
NextLine(Sources) ==
    /\ ~running /\ ~ub /\ parser.pc = "done" /\ runs < MaxRuns
    /\ \E source \in Sources : parser' = Compiling(source)
    /\ runs' = runs + 1
    /\ lastOp' = "compile"
    /\ UNCHANGED vmVars

\* A line whose run leaves one value on the stack for the pop(vm) of the
\* classDeclaration of the next line: for (; false;) print 1;
FirstLines == {ForOf(<<T_semi>>, <<T_false>>, <<>>, PrintOf(1))}

\* Every source ends with print 3;
ClassSources ==
    {s \o PrintOf(3) :
       s \in {ClassOf(<<>>),
              ClassOf(MethodOf(T_m, <<>>)),
              ClassOf(MethodOf(T_init, <<>>) \o MethodOf(T_m, PrintOf(1))),
              <<T_lbrace>> \o ClassOf(<<>>) \o <<T_rbrace>>}}

\* The lines of the model: the first line, or a class declaration
DeclSources == FirstLines \cup ClassSources

NextDecl ==
    \/ Compile(DeclSources)
    \/ NextLine(ClassSources)
    \/ Declaration
    \/ Returns
    \/ Interpreted
    \/ Run_OP_CLASS
    \/ Run_OP_DEFINE_GLOBAL
    \/ Run_OP_GET_GLOBAL
    \/ Run_OP_GET_LOCAL
    \/ Run_OP_CLOSURE
    \/ Run_OP_METHOD
    \/ Run_OP_CONSTANT
    \/ Run_OP_FALSE
    \/ Run_OP_JUMP_IF_FALSE
    \/ Run_OP_POP
    \/ Run_OP_PRINT
    \/ Run_OP_NIL
    \/ Run_OP_RETURN

SpecDecl == Init /\ [][NextDecl]_vars

\* The script that runs declares a class
ClassDeclared ==
    \E k \in 1 .. Len(parser.code) : parser.code[k].op = "OP_CLASS"

\* C19: a class declaration leaves the stack as high as it found it when it
\* runs: the class that is pushed again for the methods is popped by an
\* instruction emitted after the class body.  The stack of a script
\* between two of its declarations holds the script's closure only.
C19_ClassIsNeutral ==
    BetweenDeclarations /\ ClassDeclared => Len(stack) = 1

-----------------------------------------------------------------------------
(* super inside a method of a class with a superclass.                     *)

T_x      == Token("TOKEN_IDENTIFIER", <<120>>)
T_this   == Token("TOKEN_THIS", this)
T_comma  == Token("TOKEN_COMMA", <<44>>)
T_return == Token("TOKEN_RETURN", <<114, 101, 116, 117, 114, 110>>)
T_bang   == Token("TOKEN_BANG", <<33>>)
T_minus  == Token("TOKEN_MINUS", <<45>>)

\* The most arguments of a call in a source of SuperSources
MaxSuperArgs == 2

\* ( 1, .., 1 ) with n arguments, nothing when n = -1
CallArgs(n) ==
    IF n = -1 THEN <<>>
    ELSE <<T_open>>
           \o [i \in 1 .. 2 * n - 1 |->
                 IF i % 2 = 1 THEN T_num(1) ELSE T_comma]
           \o <<T_close>>

\* receiver . name   and   receiver . name ( arguments )
Access(receiver, name, n) == <<receiver, T_dot, name>> \o CallArgs(n)

\* The statements an expression e is put into
Statements(e) ==
    {e \o <<T_semi>>,
     <<T_print>> \o e \o <<T_semi>>,
     <<T_return>> \o e \o <<T_semi>>,
     <<T_var, T_a, T_equal>> \o e \o <<T_semi>>,
     <<T_bang>> \o e \o <<T_semi>>,
     <<T_minus>> \o e \o <<T_semi>>,
     <<T_open>> \o e \o <<T_close, T_semi>>,
     <<T_num(1), T_plus>> \o e \o <<T_semi>>}

\* class B < A { m() { body } }
SubclassOf(body) ==
    <<T_class, T_B, T_less, T_A, T_lbrace>> \o MethodOf(T_m, body)
      \o <<T_rbrace>>

SuperSources ==
    {SubclassOf(s) :
       s \in UNION {Statements(Access(receiver, name, n))
                     : receiver \in {T_super, T_this}, name \in {T_x, T_m},
                       n \in -1 .. MaxSuperArgs}}

NextSuper ==
    \/ Compile(SuperSources)
    \/ Declaration
    \/ Returns

SpecSuper == Init /\ [][NextSuper]_vars

\* declaration() has been called for the class of a source that holds
\* super
SuperDeclared ==
    /\ lastOp = "declaration"
    /\ \E i \in 1 .. Len(parser.text) : parser.text[i] = T_super

\* The code of a method reads this, then the arguments, then super, and
\* ends the access with OP_GET_SUPER or OP_SUPER_INVOKE of the name
ReadsSuper(func, name, n) ==
    \E k \in 2 .. Len(func.code) :
      /\ func.code[k].op = IF n = -1 THEN "OP_GET_SUPER"
                                      ELSE "OP_SUPER_INVOKE"
      /\ func.constants[func.code[k].a + 1] = Str(name)
      /\ func.code[k - 1].op
            \in {"OP_GET_LOCAL", "OP_GET_UPVALUE", "OP_GET_GLOBAL"}
      /\ \E t \in 1 .. k - 1 : func.code[t] = Op1("OP_GET_LOCAL", 0)

\* C20: in a method of a class that has a superclass, super.name and
\* super.name(arguments) start an expression and compile without an error:
\* the method reads this, the arguments and super, then OP_GET_SUPER or
\* OP_SUPER_INVOKE with the name.
C20_SuperCompiles ==
    SuperDeclared =>
      /\ parser.reported = <<>>
      /\ parser.pc = "compile"
      /\ Len(parser.functions) = 1
      /\ \E name \in {<<120>>, meth}, n \in -1 .. MaxSuperArgs :
           ReadsSuper(parser.functions[1], name, n)

-----------------------------------------------------------------------------
(* A method call x.m(arguments) on an instance.                            *)

\* The switch of run() has no case for OP_INVOKE and no default: nothing
\* is looked up and nothing is called.  The loop then reads the two
\* operands of the instruction, the name and the argument count, as
\* instructions of their own; the run is followed no further.
OP_INVOKE(v) == Undefined(v)

Run_OP_INVOKE == Dispatch("OP_INVOKE") /\ Becomes(OP_INVOKE(Fetched))

\* The most arguments of a call in a source of InvokeSources
MaxInvokeArgs == 2

\* class A {} var x = A(); x.m(1, .., 1);
InvokeSources ==
    {ClassOf(<<>>) \o <<T_var, T_x, T_equal, T_A, T_open, T_close, T_semi>>
       \o Access(T_x, T_m, n) \o <<T_semi>>
     : n \in 0 .. MaxInvokeArgs}

NextInvoke ==
    \/ Compile(FirstLines)
    \/ NextLine(InvokeSources)
    \/ Declaration
    \/ Returns
    \/ Interpreted
    \/ Run_OP_CLASS
    \/ Run_OP_DEFINE_GLOBAL
    \/ Run_OP_GET_GLOBAL
    \/ Run_OP_CALL
    \/ Run_OP_INVOKE
    \/ Run_OP_CONSTANT
    \/ Run_OP_FALSE
    \/ Run_OP_JUMP_IF_FALSE
    \/ Run_OP_NIL
    \/ Run_OP_RETURN

SpecInvoke == Init /\ [][NextInvoke]_vars

\* run() is at OP_INVOKE with no argument and the receiver is an instance
InvokesOnInstance ==
    /\ running /\ ~ub
    /\ Instruction.op = "OP_INVOKE"
    /\ Instruction.pairs[1] = 0
    /\ IS_INSTANCE(heap, peek(VM, 0))

\* OP_GET_PROPERTY name followed, when it went well, by OP_CALL 0
GetThenCall(v, name, gc, t) ==
    The({IF w.ret # "" \/ w.ub THEN w ELSE OP_CALL(w, 0, gc, t)
         : w \in {OP_GET_PROPERTY(v, name, gc)}})

\* What a program can observe of a VM: stack, frames, messages, output,
\* and how the run ended
Observed(v) == <<v.stack, v.frames, v.errors, v.output, v.ub, v.ret>>

\* C21: for x.m() with x an instance, OP_INVOKE m 0 has the observable
\* behaviour of OP_GET_PROPERTY m followed by OP_CALL 0: the same stack,
\* frames, messages, output and end of the run.
C21_InvokeIsGetThenCall ==
    [][InvokesOnInstance /\ lastOp' = "OP_INVOKE" =>
         \E gc \in BOOLEAN, t \in 0 .. ClockTicks :
           <<stack', frames', errors', output', ub', result'>>
             = Observed(GetThenCall(Fetched, Instruction.a, gc, t))]_vars

-----------------------------------------------------------------------------
(* The call of a function and the return from it.                          *)

T_fun == Token("TOKEN_FUN", <<102, 117, 110>>)
T_f   == Token("TOKEN_IDENTIFIER", f)

\* fun f(params) { body }
FunOf(params, body) ==
    <<T_fun, T_f, T_open>> \o params \o <<T_close, T_lbrace>> \o body
      \o <<T_rbrace>>

\* fun f(a) { return a; }
Identity == FunOf(<<T_a>>, <<T_return, T_a, T_semi>>)

\* f(1)
CallOfF == <<T_f, T_open, T_num(1), T_close>>

CallSources ==
    {Identity \o <<T_print>> \o CallOfF \o <<T_semi>>,
     Identity \o <<T_print, T_f, T_open>> \o CallOfF \o <<T_close, T_semi>>,
     Identity \o <<T_var, T_x, T_equal>> \o CallOfF \o <<T_semi>>
       \o <<T_print, T_x, T_semi>>,
     FunOf(<<>>, PrintOf(1)) \o <<T_f, T_open, T_close, T_semi>>,
     Identity \o ForOf(<<T_semi>>, <<T_false>>, <<>>, PrintOf(1)),
     ForOf(<<T_semi>>, <<T_false>>, <<>>, PrintOf(1)),
     PrintOf(3)}

NextCall ==
    \/ Compile(CallSources)
    \/ Declaration
    \/ Returns
    \/ Interpreted
    \/ Run_OP_CLOSURE
    \/ Run_OP_DEFINE_GLOBAL
    \/ Run_OP_GET_GLOBAL
    \/ Run_OP_GET_LOCAL
    \/ Run_OP_CONSTANT
    \/ Run_OP_CALL
    \/ Run_OP_FALSE
    \/ Run_OP_JUMP_IF_FALSE
    \/ Run_OP_POP
    \/ Run_OP_PRINT
    \/ Run_OP_NIL
    \/ Run_OP_RETURN

SpecCall == Init /\ [][NextCall]_vars

\* run() executes OP_RETURN
Returning ==
    /\ running /\ ~ub
    /\ Instruction.op = "OP_RETURN"
    /\ lastOp' = "OP_RETURN"

\* The instruction the frame on top has executed last
Resumed(h, fs) == h[h[fs[Len(fs)].closure].func].code[fs[Len(fs)].ip - 1]

\* C24: OP_RETURN from a frame that is not the last gives the caller the
\* result in place of the callee and its arguments: one frame less, the
\* stack ends one above the base of the frame that returned, with the
\* result on top, and the caller goes on after its OP_CALL.  OP_RETURN from
\* the last frame pops the script's closure, leaves the stack empty and
\* ends interpret with INTERPRETER_OK.
C24_ReturnGivesResult ==
    [][Returning =>
         IF Len(frames) > 1
         THEN /\ frames' = SubSeq(frames, 1, Len(frames) - 1)
              /\ Len(stack') = frames[Len(frames)].slots + 1
              /\ stack'[Len(stack')] = peek(VM, 0)
              /\ Resumed(heap', frames').op = "OP_CALL"
              /\ running'
         ELSE /\ frames' = <<>>
              /\ stack' = <<>>
              /\ ~running' /\ result' = "OK"]_vars

-----------------------------------------------------------------------------
(* The table under a client that interns its keys and sets, gets and       *)
(* deletes them in the globals table.  ab and ac have the same hash.       *)

\* The keys of the client in the order it interns them; it keeps them on
\* the stack
TableKeys == <<ab, ac, x>> \o [i \in 1 .. 4 |-> <<48 + i>>]

\* The most sets that have counted in the globals table when the client
\* sets a key
MaxCount == 7

\* The call of the client has returned with the VM v
Client(op, v) ==
    /\ heap' = v.heap
    /\ objects' = v.objects
    /\ stack' = v.stack
    /\ frames' = v.frames
    /\ openUpvalues' = v.openUpvalues
    /\ globals' = v.globals
    /\ strings' = v.strings
    /\ errors' = v.errors
    /\ output' = v.output
    /\ ub' = v.ub
    /\ buffers' = v.buffers
    /\ collected' = v.collected
    /\ lost' = v.lost
    /\ lastOp' = op
    /\ UNCHANGED <<running, result, program, parser, runs, collector>>

\* The keys the client sets, gets and deletes, once it has interned all
\* its keys: ab, ac and x
ClientKeys ==
    IF Len(stack) < Len(TableKeys) THEN {}
    ELSE {AS_OBJ(stack[i]) : i \in 1 .. 3}

\* push(vm, OBJ_VAL(copyString(vm, NULL, length, chars)))
InternKey ==
    /\ ~running /\ ~ub
    /\ Len(stack) < Len(TableKeys)
    /\ \E chars \in {TableKeys[Len(stack) + 1]}, gc \in BOOLEAN :
         \E r \in {copyString(VM, NoCompiler, gc, Len(chars), chars)} :
            Client("copyString", push(r.v, OBJ_VAL(r.o)))

\* tableSet(vm, NULL, &vm->globals, key, NUMBER_VAL(n))
TableSet ==
    /\ ~running /\ ~ub
    /\ globals.count < MaxCount
    /\ \E key \in ClientKeys, n \in 1 .. 2, gc \in BOOLEAN :
         Client("tableSet",
                tableSet(VM, NoCompiler, gc, GlobalsRef, key,
                         NUMBER_VAL(n)).v)

\* tableGet(&vm->globals, key, &value)
TableGet ==
    /\ ~running /\ ~ub
    /\ ClientKeys # {}
    /\ Client("tableGet", VM)

\* tableDelete(&vm->globals, key)
TableDelete ==
    /\ ~running /\ ~ub
    /\ \E key \in ClientKeys :
         Client("tableDelete",
                PutTable(VM, GlobalsRef, tableDelete(heap, globals, key)))

NextTable ==
    \/ InternKey
    \/ TableSet
    \/ TableGet
    \/ TableDelete

SpecTable == Init /\ [][NextTable]_vars

\* tableGet, tableSet and tableDelete of the key k in the table t agree
\* with the map that t is: k is absent exactly when tableSet says it is
\* new, a set key is found with the value set, a deleted key is not found,
\* and every other key is found as before.
ActsAsMap(t, k, others) ==
    /\ \A n \in 1 .. 2 :
         \E s \in {tableSetIn(heap, t, k, NUMBER_VAL(n))} :
           /\ s.isNewKey = ~tableGet(heap, t, k).found
           /\ tableGet(heap, s.table, k)
                = [found |-> TRUE, value |-> NUMBER_VAL(n)]
           /\ \A j \in others \ {k} :
                tableGet(heap, s.table, j) = tableGet(heap, t, j)
    /\ \E d \in {tableDelete(heap, t, k)} :
         /\ ~tableGet(heap, d, k).found
         /\ \A j \in others \ {k} :
              tableGet(heap, d, j) = tableGet(heap, t, j)

\* C26: under any sequence of tableSet, tableDelete and tableGet on keys
\* whose hashes collide, resizes included, the table is a finite map: in
\* every table the client reaches, tableSet of a key returns true exactly
\* when the key is absent and makes tableGet find the value set, tableDelete
\* makes tableGet miss the key, and neither changes what tableGet finds for
\* any other key.
C26_TableIsAMap ==
    \A k \in ClientKeys : ActsAsMap(globals, k, ClientKeys \cup LiveKeys(globals))

\* The index of the slot the probe for key begins at
Home(table, key) == HashMod(heap[key].hash, table.capacity) + 1

\* tableDelete has left a tombstone in the slot the probe for a key that is
\* in the table begins at, in a table that has been resized
C26_TombstoneBeforeKey ==
    /\ lastOp = "tableDelete" /\ ~ub
    /\ globals.capacity = 16
    /\ \E k \in ClientKeys \cap LiveKeys(globals) :
         globals.entries[Home(globals, k)]
           = [key |-> NULL, value |-> BOOL_VAL(TRUE)]

\* The number of tombstones of a table
Tombstones(table) ==
    Cardinality({i \in 1 .. Len(table.entries) :
                   table.entries[i] = [key |-> NULL, value |-> BOOL_VAL(TRUE)]})

\* The slots of a table that are not empty: entries and tombstones
UsedSlots(table) == Cardinality(LiveKeys(table)) + Tombstones(table)

\* C27: tableSet increments count only when it puts a new key into a slot
\* that is truly empty; a new key put into a tombstone leaves count as it
\* is.  So count is the number of entries plus the number of tombstones
\* between two resizes, and the number of entries after a resize.
C27_CountIsUsedSlots ==
    [][/\ lastOp' = "tableSet" /\ globals'.capacity = globals.capacity =>
            globals'.count - globals.count
              = UsedSlots(globals') - UsedSlots(globals)
       /\ globals'.count = UsedSlots(globals')
       /\ strings'.count = UsedSlots(strings')]_vars

\* A slot of the table is truly empty: no key, value nil
HasEmpty(table) ==
    \E i \in 1 .. Len(table.entries) : table.entries[i] = EmptyEntry

-----------------------------------------------------------------------------
(* The hash of a string.                                                   *)

\* 32-bit FNV-1a of the bytes key[i], key[i + 1], ... on top of hash
RECURSIVE Fnv1aFrom(_, _, _)
Fnv1aFrom(hash, key, i) ==
    IF i > Len(key) THEN hash
    ELSE Fnv1aFrom(HashMul(HashXor(hash, key[i])), key, i + 1)

\* 32-bit FNV-1a of all the bytes of key
Fnv1a(key) == Fnv1aFrom(HashBasis, key, 1)

\* The strings a and b are as long as each other and differ in one byte
DifferInOneByte(a, b) ==
    /\ Len(a) = Len(b)
    /\ Cardinality({i \in 1 .. Len(a) : a[i] # b[i]}) = 1

\* C29: the hash of every string object is the 32-bit FNV-1a hash of all
\* its bytes: from 2166136261, xor with byte i and multiply by 16777619
\* modulo 2^32 for i = 0 .. length - 1.  So two strings of the same length
\* that differ in one byte have hashes that differ.
C29_HashIsFnv1a ==
    /\ \A s \in StringsOf(heap) : heap[s].hash = Fnv1a(heap[s].chars)
    /\ \A s, t \in StringsOf(heap) :
         DifferInOneByte(heap[s].chars, heap[t].chars)
           => heap[s].hash # heap[t].hash

-----------------------------------------------------------------------------
(* addUpvalue on the upvalues of one compiler, for every index and both    *)
(* values of isLocal.                                                      *)

\* The most upvalues of the compiler
MaxUpvalues == 6

\* addUpvalue(compiler, parser, index, isLocal) by resolveUpvalue
AddUpvalue ==
    /\ Len(parser.upvalues) < MaxUpvalues
    /\ \E index \in 0 .. UINT8_COUNT - 1, isLocal \in BOOLEAN :
         parser' = [parser EXCEPT
                      !.upvalues = addUpvalue([upvalues |-> parser.upvalues],
                                              index, isLocal).c.upvalues]
    /\ lastOp' = "addUpvalue"
    /\ UNCHANGED <<vmVars, runs>>

NextAddUpvalue == AddUpvalue

SpecAddUpvalue == Init /\ [][NextAddUpvalue]_vars

\* C30: when addUpvalue(index, isLocal) appends an entry to the upvalues of
\* a function, the entry has the index and the isLocal it was called with,
\* for every index in 0 .. 255, and upvalueCount is one more.
C30_AddUpvalueStores ==
    \A index \in 0 .. UINT8_COUNT - 1, isLocal \in BOOLEAN :
      \E r \in {addUpvalue([upvalues |-> parser.upvalues], index, isLocal)} :
        r.c.upvalues # parser.upvalues =>
          /\ r.c.upvalues = Append(parser.upvalues,
                                   [isLocal |-> isLocal, index |-> index])
          /\ r.o = Len(parser.upvalues)

\* C31: addUpvalue is idempotent: called a second time with the same index
\* and isLocal, for every index in 0 .. 255, it returns the index the first
\* call returned and leaves the upvalues and their count as the first call
\* left them.
C31_AddUpvalueIdempotent ==
    \A index \in 0 .. UINT8_COUNT - 1, isLocal \in BOOLEAN :
      \E first \in {addUpvalue([upvalues |-> parser.upvalues], index,
                               isLocal)} :
        \E second \in {addUpvalue(first.c, index, isLocal)} :
          /\ second.o = first.o
          /\ second.c = first.c

-----------------------------------------------------------------------------
(* resolveUpvalue in the compilers of nested functions: the script with a  *)
(* block, a function in it and a function in that one, each with locals.  *)

\* The names of the locals, a and b, and a name that is no local: c
LocalNames == {<<97>>, <<98>>}

ResolvedNames == LocalNames \cup {Name_c}

\* The most functions that are nested
MaxNesting == 2

\* The most locals of a compiler besides its slot 0
MaxLocals == 2

\* The most upvalues of a compiler when resolveUpvalue is called
MaxEntries == 2

\* The '{' of a block of the script: beginScope
OpenBlock ==
    /\ parser.pc = "compile" /\ parser.enclosing = <<>>
    /\ parser.scopeDepth = 0
    /\ parser' = beginScope(parser)
    /\ lastOp' = "beginScope"
    /\ UNCHANGED <<vmVars, runs>>

\* function() up to the body: initCompiler and beginScope
OpenFunction ==
    /\ parser.pc = "compile"
    /\ Len(parser.enclosing) + Len(parser.functions) < MaxNesting
    /\ parser' = beginScope(initCompiler(parser, "TYPE_FUNCTION"))
    /\ lastOp' = "initCompiler"
    /\ UNCHANGED <<vmVars, runs>>

\* var name; in a scope: addLocal and markInitialized
DeclareLocal ==
    /\ parser.pc = "compile" /\ parser.scopeDepth > 0
    /\ Len(parser.locals) < MaxLocals + 1
    /\ \E name \in LocalNames \ Range(parser.locals) :
         parser' = markInitialized(addLocal(parser, name))
    /\ lastOp' = "addLocal"
    /\ UNCHANGED <<vmVars, runs>>

\* namedVariable of a name that is no local of the current function:
\* resolveUpvalue(current, &parser, &name)
ResolveUpvalue ==
    /\ parser.pc = "compile"
    /\ \A k \in 1 .. Len(parser.enclosing) + 1 :
         Len(Compilers(parser)[k].upvalues) < MaxEntries
    /\ \E name \in ResolvedNames :
         /\ resolveLocal([locals |-> parser.locals], name) = -1
         /\ \E r \in {resolveUpvalue(Compilers(parser),
                                     Len(parser.enclosing) + 1, name)} :
              parser' = IF r.o = -1 THEN parser
                        ELSE Captures(parser, r.cs, name)
    /\ lastOp' = "resolveUpvalue"
    /\ UNCHANGED <<vmVars, runs>>

\* function() from the '}' of the body on: endCompiler, OP_CLOSURE and
\* the pairs
CloseFunction ==
    /\ parser.pc = "compile" /\ parser.enclosing # <<>>
    /\ parser' = EndFunction(parser)
    /\ lastOp' = "endCompiler"
    /\ UNCHANGED <<vmVars, runs>>

NextResolve ==
    \/ Compile({<<>>})
    \/ OpenBlock
    \/ OpenFunction
    \/ DeclareLocal
    \/ ResolveUpvalue
    \/ CloseFunction

SpecResolve == Init /\ [][NextResolve]_vars

\* resolveUpvalue has added to the upvalues of the compiler the entry it
\* returns the index of
AddedEntry(r, k, isLocal, index) ==
    /\ r.o \in 0 .. Len(r.cs[k].upvalues) - 1
    /\ r.cs[k].upvalues[r.o + 1] = [isLocal |-> isLocal, index |-> index]

\* C32: resolveUpvalue of a name in the compiler of a function returns -1
\* when the compiler has no enclosing compiler.  When the name is a local
\* of the enclosing function it marks that local isCaptured and adds the
\* upvalue (slot of the local, isLocal = true), and the enclosing function
\* gets no upvalue for its own local.  Otherwise it asks the enclosing
\* compiler and, when that one finds the name, adds the upvalue (index it
\* returned, isLocal = false).
C32_ResolveUpvalue ==
    parser.pc = "compile" =>
      \A name \in ResolvedNames :
        \E cs \in {Compilers(parser)} : \E k \in {Len(cs)} :
          \E r \in {resolveUpvalue(cs, k, name)} :
            resolveLocal(cs[k], name) = -1 =>
              IF k = 1 THEN r.o = -1
              ELSE IF resolveLocal(cs[k - 1], name) # -1
              THEN /\ AddedEntry(r, k, TRUE, resolveLocal(cs[k - 1], name))
                   /\ Captures(parser, r.cs, name).enclosing[k - 1]
                        .captured[resolveLocal(cs[k - 1], name) + 1]
                   /\ r.cs[k - 1].upvalues = cs[k - 1].upvalues
              ELSE \E up \in {resolveUpvalue(cs, k - 1, name)} :
                     IF up.o = -1 THEN r.o = -1
                     ELSE AddedEntry(r, k, FALSE, up.o)

\* The instruction function() ends with in the enclosing chunk
ClosureEmitted == EndFunction(parser).code[Len(EndFunction(parser).code)]

\* C33: when a function has been compiled the enclosing chunk holds
\* OP_CLOSURE with the function as its constant and then upvalueCount
\* pairs (isLocal, index), as many as OP_CLOSURE reads, and the pairs are
\* the entries of the upvalues of the function compiled, in their order.
C33_PairsAreOwnUpvalues ==
    parser.pc = "compile" /\ parser.enclosing # <<>> =>
      /\ ClosureEmitted.op = "OP_CLOSURE"
      /\ EndFunction(parser).constants[ClosureEmitted.a + 1]
           = Fun(Len(parser.functions) + 2)
      /\ Len(ClosureEmitted.pairs) = Len(parser.upvalues)
      /\ \A i \in 1 .. Len(parser.upvalues) :
           ClosureEmitted.pairs[i]
             = <<IF parser.upvalues[i].isLocal THEN 1 ELSE 0,
                 parser.upvalues[i].index>>


\* The jump instructions of the script's chunk

ForwardJumps ==
    {k \in 1 .. Len(parser.code) :
       parser.code[k].op \in {"OP_JUMP", "OP_JUMP_IF_FALSE"}}

Loops == {k \in 1 .. Len(parser.code) : parser.code[k].op = "OP_LOOP"}

\* The instruction run() is at after the jump at k has been taken
Target(k) ==
    IF parser.code[k].op = "OP_LOOP"
    THEN k + 1 - READ_SHORT(parser.code[k])
    ELSE k + 1 + READ_SHORT(parser.code[k])

\* A chunk whose first instruction is a jump that has distance
\* instructions after it
Far(distance) ==
    [parser EXCEPT !.code = [i \in 1 .. distance + 1 |->
                               IF i = 1 THEN [op |-> "OP_JUMP", a |-> 0,
                                              pairs |-> <<255, 255>>]
                               ELSE Op("OP_POP")],
                   !.hadError = FALSE, !.panicMode = FALSE,
                   !.reported = <<>>, !.pc = "idle"]

\* C34: the two operand bytes that patchJump and emitLoop write for a
\* distance of at most 65535 are read back by READ_SHORT as that distance.
\* A patched JUMP or JUMP_IF_FALSE, when taken, leaves run() at the
\* instruction that was the end of the chunk when patchJump was called,
\* and LOOP leaves it at loopStart.  A distance above 65535 is reported as
\* a compile error.
C34_JumpsLand ==
    /\ lastOp = "none" =>
         /\ \A d \in 0 .. UINT16_MAX :
              READ_SHORT([pairs |-> ShortBytes(d)]) = d
         /\ \E q \in {patchJump(Far(UINT16_MAX), 1)} :
              /\ ~q.hadError
              /\ READ_SHORT(q.code[1]) = UINT16_MAX
         /\ \E q \in {patchJump(Far(UINT16_MAX + 1), 1)} :
              /\ q.hadError
              /\ q.reported[1].message = "Too much code to jump over."
         /\ \E q \in {emitLoop(Far(UINT16_MAX - 2), 1)} :
              /\ ~q.hadError
              /\ READ_SHORT(q.code[Len(q.code)]) = UINT16_MAX
         /\ \E q \in {emitLoop(Far(UINT16_MAX - 1), 1)} :
              /\ q.hadError
              /\ q.reported[1].message = "Loop body too large."
    /\ parser.pc # "idle" /\ ~parser.hadError =>
         /\ \A k \in ForwardJumps :
              \E q \in {patchJump(parser, k)} :
                /\ ~q.hadError
                /\ k + 1 + READ_SHORT(q.code[k]) = Len(parser.code) + 1
         /\ \A loopStart \in 1 .. Len(parser.code) + 1 :
              \E q \in {emitLoop(parser, loopStart)} :
                /\ ~q.hadError
                /\ Len(q.code) + 1 - READ_SHORT(q.code[Len(q.code)])
                     = loopStart
         /\ \A k \in ForwardJumps :
              /\ Target(k) \in k + 1 .. Len(parser.code) + 1
              /\ running => Target(k) <= Len(parser.code)
              /\ parser.code[k].op = "OP_JUMP_IF_FALSE" =>
                   /\ Target(k) <= Len(parser.code)
                   /\ parser.code[Target(k)].op = "OP_POP"
              /\ parser.code[k].op = "OP_JUMP" =>
                   /\ parser.code[k + 1].op = "OP_POP"
                   /\ \E j \in ForwardJumps :
                        j < k /\ Target(j) = k + 1
         /\ \A k \in Loops :
              /\ Target(k) \in 1 .. k
              /\ \E j \in ForwardJumps : Target(k) < j /\ Target(j) = k + 1
    /\ running /\ ~ub /\ Len(frames) = 1 =>
         /\ lastOp \in {"OP_JUMP", "OP_LOOP"} =>
              \E k \in ForwardJumps \cup Loops :
                /\ parser.code[k].op = lastOp
                /\ frames[1].ip = Target(k)
         /\ lastOp = "OP_JUMP_IF_FALSE" =>
              \E k \in ForwardJumps :
                /\ parser.code[k].op = lastOp
                /\ frames[1].ip = IF isFalsey(peek(VM, 0)) THEN Target(k)
                                  ELSE k + 1

\* A loop has jumped back to its condition, and a false condition has
\* jumped over a branch
C34_LoopTaken ==
    /\ running /\ ~ub
    /\ lastOp = "OP_LOOP"
    /\ \E k \in Loops : frames[1].ip = Target(k) /\ Target(k) < k

C34_BranchSkipped ==
    /\ running /\ ~ub
    /\ lastOp = "OP_JUMP_IF_FALSE"
    /\ isFalsey(peek(VM, 0))
    /\ \E k \in ForwardJumps : frames[1].ip = Target(k) /\ Target(k) > k + 1


-----------------------------------------------------------------------------
(* Assignment targets.  Expression statements  target = ... ;  are         *)
(* compiled, the target being a name, a property, or an expression that    *)
(* is neither.                                                             *)

T_b    == Token("TOKEN_IDENTIFIER", <<98>>)
T_c    == Token("TOKEN_IDENTIFIER", <<99>>)
T_star == Token("TOKEN_STAR", <<42>>)

\* a   a.b   a.b.c   a().b
Assignable ==
    {<<T_a>>, <<T_a, T_dot, T_b>>, <<T_a, T_dot, T_b, T_dot, T_c>>,
     <<T_a, T_open, T_close, T_dot, T_b>>}

\* a + b   a * b   a - b   a < b   (a)   -a   !a   a()   a.b()   a + b.c
\* a.b + c   1   nil   and the same with a second operator
NotAssignable ==
    {<<T_a, T_plus, T_b>>, <<T_a, T_star, T_b>>, <<T_a, T_minus, T_b>>,
     <<T_a, T_less, T_b>>, <<T_open, T_a, T_close>>, <<T_minus, T_a>>,
     <<T_bang, T_a>>, <<T_a, T_open, T_close>>,
     <<T_a, T_dot, T_b, T_open, T_close>>,
     <<T_a, T_plus, T_b, T_dot, T_c>>, <<T_a, T_dot, T_b, T_plus, T_c>>,
     <<T_num(1)>>, <<T_nil>>,
     <<T_a, T_plus, T_b, T_star, T_c>>, <<T_a, T_star, T_b, T_plus, T_c>>}

\* = c ;   and   = b = c ;
Assigned ==
    {<<T_equal, T_c, T_semi>>, <<T_equal, T_b, T_equal, T_c, T_semi>>}

\* = b + c = a ;
AssignedSum == <<T_equal, T_b, T_plus, T_c, T_equal, T_a, T_semi>>

GoodSources == {target \o rest : target \in Assignable, rest \in Assigned}

BadSources ==
    {target \o rest : target \in NotAssignable,
                      rest \in Assigned \cup {AssignedSum}}
      \cup {target \o AssignedSum : target \in Assignable}

AssignSources == GoodSources \cup BadSources

NextAssign ==
    \/ Compile(AssignSources)
    \/ Declaration
    \/ SynchronizeWhile
    \/ SynchronizeSwitch
    \/ Returns

SpecAssign == Init /\ [][NextAssign]_vars

\* The instructions of the chunk that assign
Sets ==
    {k \in 1 .. Len(parser.code) :
       parser.code[k].op \in {"OP_SET_GLOBAL", "OP_SET_LOCAL",
                              "OP_SET_UPVALUE", "OP_SET_PROPERTY"}}

\* The '=' of the source
Equals == {k \in 1 .. Len(parser.text) : parser.text[k] = T_equal}

\* The first declaration of the source has been compiled
FirstCompiled == parser.pc # "idle" /\ lastOp # "compile"

\* C35: an '=' after an expression that is not an assignment target is
\* reported as "Invalid assignment target.", and the '=' is taken by no
\* rule; a = b = c and a.b = c compile without an error, every '=' giving
\* one set instruction.
C35_InvalidTargets ==
    FirstCompiled =>
      /\ parser.text \in BadSources =>
           /\ parser.hadError
           /\ parser.reported[1] =
                [at |-> "TOKEN_EQUAL", message |-> "Invalid assignment target."]
      /\ /\ lastOp = "declaration"
         /\ \E target \in NotAssignable :
              /\ Len(target) < Len(parser.text)
              /\ SubSeq(parser.text, 1, Len(target) + 1)
                   = Append(target, T_equal)
         => Sets = {}
      /\ parser.text \in GoodSources =>
           /\ ~parser.hadError
           /\ parser.reported = <<>>
           /\ Cardinality(Sets) = Cardinality(Equals)

\* a + b = c ;  has been compiled and reported
C35_SumAssigned ==
    /\ lastOp = "declaration"
    /\ parser.text = <<T_a, T_plus, T_b, T_equal, T_c, T_semi>>
    /\ parser.hadError
    /\ Len(parser.reported) = 1

\* a.b = c ;  has been compiled
C35_PropertyAssigned ==
    /\ lastOp = "declaration"
    /\ parser.text = <<T_a, T_dot, T_b, T_equal, T_c, T_semi>>
    /\ ~parser.hadError
    /\ parser.code[Len(parser.code) - 1].op = "OP_SET_PROPERTY"


-----------------------------------------------------------------------------
(* The mark bits between collections *)

\* C36: between two calls of the library no object carries a mark: objects
\* are allocated unmarked and sweep clears the mark of every object it
\* keeps.  Tracing ends with the grey stack empty: what a marked object
\* refers to through blackenObject is marked.
C36_NoMarkOutsideCollection ==
    ~ub =>
      /\ \A o \in Range(objects) : heap[o].type # "FREE" /\ ~heap[o].isMarked
      /\ \A a \in Addresses : heap[a].type # "FREE" => ~heap[a].isMarked
      /\ \A o \in MarkedNow : blackenObject(heap, o) \subseteq MarkedNow

\* A collection has freed an object and kept a function, which was marked
\* through its closure only
C36_SurvivorUnmarked ==
    /\ lastOp = "collectGarbage" /\ ~ub
    /\ \E a \in FreeAddresses(heap) : \E o \in Range(objects) : a < o
    /\ \E o \in Range(objects) :
         /\ heap[o].type = "OBJ_FUNCTION"
         /\ o \notin markRoots(VM, NoCompiler)


-----------------------------------------------------------------------------
(* The memory manager in bytes: src/src/lib/memory.c.  A client allocates  *)
(* and frees blocks through reallocate; a collection is followed step by   *)
(* step, and which blocks the roots reach is a free choice.                *)

GC_HEAP_GROW_FACTOR == 2

\* The blocks of the model at one time
MaxBlocks == 3

\* The sizes of the blocks, in bytes: an object header, and character
\* arrays of half a megabyte and of a megabyte
BlockSizes == {16, 512 * 1024, 1024 * 1024}

\* The variables other than collector
programVars ==
    <<heap, objects, stack, frames, openUpvalues, globals, strings,
      running, result, errors, output, ub, buffers, collected, lost,
      program, runs, parser>>

\* collectGarbage is entered
Collecting(c, newSize, stress) ==
    [c EXCEPT !.activations = @ + 1, !.pc = "markRoots",
              !.pending = newSize, !.forced = stress]

\* A reallocate that tests the threshold whenever the size changes
reallocateOnFree(c, oldSize, newSize, stress) ==
    The({IF newSize # oldSize /\ (stress \/ c1.bytesAllocated > c1.nextGC)
         THEN Collecting(c1, newSize, stress)
         ELSE c1
         : c1 \in {[c EXCEPT !.bytesAllocated = @ + newSize - oldSize]}})

\* reallocate up to the call of collectGarbage, in a build with
\* DEBUG_STRESS_GC (stress) or without
reallocateBytes(c, oldSize, newSize, stress) ==
    The({IF newSize > oldSize /\ (stress \/ c1.bytesAllocated > c1.nextGC)
         THEN Collecting(c1, newSize, stress)
         ELSE c1
         : c1 \in {[c EXCEPT !.bytesAllocated = @ + newSize - oldSize]}})

\* allocateObject after reallocate has returned: the block is linked
Linked(c, size) ==
    [c EXCEPT !.blocks = <<[size |-> size, isMarked |-> FALSE]>> \o @]

\* markObject of block i: the grey stack grows through realloc
markObject(c, i) ==
    IF c.blocks[i].isMarked THEN c
    ELSE [c EXCEPT !.blocks[i].isMarked = TRUE,
                   !.greyCapacity = IF @ < c.greyCount + 1
                                    THEN GROW_CAPACITY(@) ELSE @,
                   !.greyCount = @ + 1]

\* ALLOCATE / allocateObject of a client, outside a collection
Allocate ==
    /\ collector.pc = "idle"
    /\ Len(collector.blocks) < MaxBlocks
    /\ \E size \in BlockSizes, stress \in BOOLEAN :
         \E c \in {reallocateBytes(collector, 0, size, stress)} :
            collector' = IF c.pc = "idle" THEN Linked(c, size) ELSE c
    /\ lastOp' = "reallocate"
    /\ UNCHANGED programVars

\* FREE of a client, outside a collection
Release ==
    /\ collector.pc = "idle"
    /\ \E i \in 1 .. Len(collector.blocks), stress \in BOOLEAN :
         \E c \in {reallocateBytes(collector, collector.blocks[i].size, 0,
                                   stress)} :
            collector' =
               [c EXCEPT !.blocks = SubSeq(@, 1, i - 1)
                                      \o SubSeq(@, i + 1, Len(@))]
    /\ lastOp' = "free"
    /\ UNCHANGED programVars

\* markRoots and blackenObject call markObject
MarkObject ==
    /\ collector.pc \in {"markRoots", "traceReferences"}
    /\ collector.pc = "traceReferences" => collector.greyCount > 0
    /\ \E i \in 1 .. Len(collector.blocks) :
         /\ ~collector.blocks[i].isMarked
         /\ collector' = markObject(collector, i)
    /\ lastOp' = "markObject"
    /\ UNCHANGED programVars

\* markRoots returns and traceReferences begins
Trace ==
    /\ collector.pc = "markRoots"
    /\ collector' = [collector EXCEPT !.pc = "traceReferences"]
    /\ lastOp' = "traceReferences"
    /\ UNCHANGED programVars

\* traceReferences takes an object off the grey stack
Blacken ==
    /\ collector.pc = "traceReferences"
    /\ collector.greyCount > 0
    /\ collector' = [collector EXCEPT !.greyCount = @ - 1]
    /\ lastOp' = "blackenObject"
    /\ UNCHANGED programVars

\* The loop of traceReferences ends; tableRemoveWhite; sweep begins
Sweep ==
    /\ collector.pc = "traceReferences"
    /\ collector.greyCount = 0
    /\ collector' = [collector EXCEPT !.pc = "sweep", !.object = 1]
    /\ lastOp' = "sweep"
    /\ UNCHANGED programVars

\* One turn of the loop of sweep: a marked block loses its mark, an
\* unmarked one is unlinked and freed through reallocate
SweepObject ==
    /\ collector.pc = "sweep"
    /\ collector.object <= Len(collector.blocks)
    /\ \E i \in {collector.object}, stress \in {collector.forced} :
         collector' =
            IF collector.blocks[i].isMarked
            THEN [collector EXCEPT !.blocks[i].isMarked = FALSE,
                                   !.object = i + 1]
            ELSE reallocateBytes(
                    [collector EXCEPT
                       !.blocks = SubSeq(@, 1, i - 1)
                                    \o SubSeq(@, i + 1, Len(@))],
                    collector.blocks[i].size, 0, stress)
    /\ lastOp' = "freeObject"
    /\ UNCHANGED programVars

\* sweep has reached the end of the list: collectGarbage sets nextGC and
\* returns to reallocate, whose block allocateObject links
Collected ==
    /\ collector.pc = "sweep"
    /\ collector.object > Len(collector.blocks)
    /\ collector' =
          Linked([collector EXCEPT
                    !.nextGC = collector.bytesAllocated * GC_HEAP_GROW_FACTOR,
                    !.activations = @ - 1, !.pc = "idle", !.object = 0,
                    !.pending = 0],
                 collector.pending)
    /\ lastOp' = "collectGarbage"
    /\ UNCHANGED programVars

NextHeap ==
    \/ Allocate
    \/ Release
    \/ MarkObject
    \/ Trace
    \/ Blacken
    \/ Sweep
    \/ SweepObject
    \/ Collected

SpecHeap == Init /\ [][NextHeap]_vars

\* C37: no collection starts while another is running.  collectGarbage is
\* entered only from a reallocate that grows, and in a build without
\* DEBUG_STRESS_GC only with bytesAllocated above nextGC; the growth of the
\* grey stack and the frees of sweep enter no collection and the former
\* leaves bytesAllocated alone; when the collection returns nextGC is
\* twice bytesAllocated.
C37_OneCollectionAtATime ==
    [][/\ collector'.activations <= 1
       /\ collector'.activations > collector.activations =>
            /\ collector.pc = "idle"
            /\ lastOp' = "reallocate"
            /\ collector'.bytesAllocated > collector.bytesAllocated
            /\ ~collector'.forced =>
                 collector'.bytesAllocated > collector'.nextGC
       /\ collector'.greyCapacity # collector.greyCapacity =>
            /\ collector'.bytesAllocated = collector.bytesAllocated
            /\ collector'.activations = collector.activations
       /\ lastOp' = "freeObject" =>
            /\ collector'.activations = collector.activations
            /\ collector'.bytesAllocated <= collector.bytesAllocated
       /\ collector'.activations < collector.activations =>
            collector'.nextGC = 2 * collector'.bytesAllocated]_vars

\* A collection that the threshold has triggered has freed a block, kept
\* another and returned
C37_ThresholdCollection ==
    /\ lastOp = "collectGarbage"
    /\ ~collector.forced
    /\ collector.activations = 0
    /\ Len(collector.blocks) = 2
    /\ collector.nextGC = 2 * collector.bytesAllocated
    /\ collector.nextGC # initCollector.nextGC
    /\ collector.greyCapacity = 8


-----------------------------------------------------------------------------
(* The stack of the VM across compile() *)

\* C38: compile() leaves the stack of the VM as it found it, whatever the
\* source, class declarations included: the values it pushes to keep them
\* from the collector are popped again and it pops nothing else, so the
\* stack never goes below its base.
C38_CompileKeepsStack ==
    parser.pc = "returned" /\ Room(heap, ObjectsOfUnit(Compiled(parser), 1)) =>
      \A gc \in BOOLEAN :
        \E func \in {compile(VM, Compiled(parser), gc)} :
          /\ ~func.v.ub
          /\ func.v.stack = stack


-----------------------------------------------------------------------------
(* What run() decodes *)

\* The case labels of the switch of run()
Cases ==
    {"OP_CONSTANT", "OP_NIL", "OP_TRUE", "OP_FALSE", "OP_POP",
     "OP_GET_LOCAL", "OP_SET_LOCAL", "OP_GET_GLOBAL", "OP_DEFINE_GLOBAL",
     "OP_SET_GLOBAL", "OP_GET_UPVALUE", "OP_SET_UPVALUE", "OP_GET_PROPERTY",
     "OP_SET_PROPERTY", "OP_EQUAL", "OP_GREATER", "OP_LESS", "OP_ADD",
     "OP_SUBTRACT", "OP_MULTIPLY", "OP_DIVIDE", "OP_NOT", "OP_NEGATE",
     "OP_PRINT", "OP_JUMP", "OP_JUMP_IF_FALSE", "OP_LOOP", "OP_CALL",
     "OP_CLOSURE", "OP_CLOSE_UPVALUE", "OP_RETURN", "OP_CLASS", "OP_METHOD"}

\* The chunk of the function that is running
Running == heap[heap[frames[Len(frames)].closure].func].code

\* C39: while a function that was compiled without error runs, the
\* instruction pointer is inside the chunk and at an instruction that the
\* switch of run() decodes, together with its operands; no operand is run
\* as an instruction.
C39_RunStaysInChunk ==
    running /\ ~ub /\ ~parser.hadError =>
      /\ frames[Len(frames)].ip \in 1 .. Len(Running)
      /\ Instruction.op \in Cases

=============================================================================
